---- MODULE Spec2Model ----
(***************************************************************************)
(* The PDF block-mapper wizard of web/static/js/block_mapper_ui.js: the    *)
(* template held in the bm_template textarea, the field-sequence wizard    *)
(* (currentFieldIndex, maxUnlockedIndex, radio lock state), the pending    *)
(* anchor selection, the live preview and the asynchronous requests the    *)
(* page issues (preview, blocks, template list / load / save).             *)
(*                                                                         *)
(* Strings that the code slices or trims are sequences of one-character    *)
(* strings; an optional value (anchor, customer_map, textarea content) is  *)
(* a sequence of length 0 or 1.  Coordinates are in quarter document       *)
(* units, so that every bounding-box centre is an integer.                 *)
(***************************************************************************)
EXTENDS Integers, Sequences, FiniteSets, TLC

\* ------------------------------------------------------------ bounds
MaxPreviews == 2
MaxSaves == 1
MaxLists == 1
MaxLoads == 1
MaxBlockLoads == 1
MaxDownloads == 1
MaxAdds == 3
MaxAddsTwo == 1
MaxAddsPreview == 1
MaxAddsReplay == 1
MaxAddsRace == 2

\* ------------------------------------------------------ small helpers
Min2(a, b) == IF a < b THEN a ELSE b
Max2(a, b) == IF a > b THEN a ELSE b

Range(s) == {s[i] : i \in 1..Len(s)}

RECURSIVE SelectSeq2(_, _)
\* s without the entries whose field_key is key (Array.prototype.filter)
SelectSeq2(s, key) ==
  IF s = <<>> THEN <<>>
  ELSE IF Head(s).field_key = key THEN SelectSeq2(Tail(s), key)
       ELSE <<Head(s)>> \o SelectSeq2(Tail(s), key)

RemoveAt(s, i) == SubSeq(s, 1, i - 1) \o SubSeq(s, i + 1, Len(s))

\* String.prototype.trim on a sequence of characters
RECURSIVE TrimLeft(_)
TrimLeft(s) == IF s # <<>> /\ Head(s) = " " THEN TrimLeft(Tail(s)) ELSE s
RECURSIVE TrimRight(_)
TrimRight(s) ==
  IF s # <<>> /\ s[Len(s)] = " " THEN TrimRight(SubSeq(s, 1, Len(s) - 1)) ELSE s
Trim(s) == TrimRight(TrimLeft(s))

\* String.prototype.indexOf(ch), 0-based, -1 when absent
IndexOfChar(s, ch) ==
  IF \E i \in 1..Len(s) : s[i] = ch
  THEN (CHOOSE i \in 1..Len(s) : s[i] = ch /\ \A j \in 1..(i - 1) : s[j] # ch) - 1
  ELSE -1

\* ------------------------------------------- fixed behaviour / wizard order
REQUIRED == {"invoice_number", "issue_date", "amount_due"}

FIELD_SEQUENCE == <<"invoice_number", "issue_date", "amount_due", "due_date">>

FieldKeys == {"invoice_number", "issue_date", "amount_due", "due_date", "customer_map"}

\* FIXED_FILTER[fieldKey].type, "" when the field has no fixed filter
FIXED_FILTER(fieldKey) ==
  CASE fieldKey = "issue_date" -> "date"
    [] fieldKey = "due_date" -> "date"
    [] fieldKey = "amount_due" -> "amount"
    [] OTHER -> ""

\* FIELD_SEQUENCE.indexOf(key): 0-based, -1 for a key outside the sequence
IndexOf(key) ==
  IF \E i \in 1..Len(FIELD_SEQUENCE) : FIELD_SEQUENCE[i] = key
  THEN (CHOOSE i \in 1..Len(FIELD_SEQUENCE) : FIELD_SEQUENCE[i] = key) - 1
  ELSE -1

\* FIELD_SEQUENCE[i] for a 0-based i
SeqKey(i) == FIELD_SEQUENCE[i + 1]

LastIndex == Len(FIELD_SEQUENCE) - 1

\* ------------------------------------------------------------ templates
\* template_json as the page sees it.  fshape tells what tpl.fields is:
\* "missing" (no fields key), "array", or "bad" (a truthy value that is no
\* array, on which .find is not a function).
EmptyObj ==
  [template_id |-> "", page |-> 0, fshape |-> "missing", fields |-> <<>>,
   customer_map |-> <<>>]

Anchor(page, x, y) == <<[page |-> page, x |-> x, y |-> y]>>

Entry(key, trigger, dir, anchor, filter) ==
  [field_key |-> key, trigger_text |-> trigger, direction |-> dir,
   anchor |-> anchor, filter |-> filter]

\* readTpl(): JSON.parse(txtTpl.value || '{}')
ReadTplOf(txt) == IF txt = <<>> THEN EmptyObj ELSE txt[1]

\* writeTpl(tpl): the textarea holds the JSON text of tpl
WriteTplOf(tpl) == <<tpl>>

\* isFieldMapped throws a TypeError on a fields value that is truthy and has
\* no find method
IsFieldMappedThrows(tpl) == tpl.fshape = "bad"

\* isFieldMapped(tpl, key), for a tpl on which it does not throw
isFieldMapped(tpl, key) ==
  LET idxs == {i \in 1..Len(tpl.fields) : tpl.fields[i].field_key = key}
  IN  /\ idxs # {}
      /\ LET f == tpl.fields[CHOOSE i \in idxs : \A j \in idxs : i <= j]
         IN  f.trigger_text # <<>> /\ f.direction # "" /\ f.anchor # <<>>

\* fieldsComplete(tpl)
fieldsComplete(tpl) == \A key \in REQUIRED : isFieldMapped(tpl, key)

\* FirstUnmapped taking the last unmapped field of the sequence
FirstUnmappedFromEnd(tpl) ==
  IF \E i \in 0..LastIndex : ~isFieldMapped(tpl, SeqKey(i))
  THEN SeqKey(CHOOSE i \in 0..LastIndex :
                /\ ~isFieldMapped(tpl, SeqKey(i))
                /\ \A j \in (i + 1)..LastIndex : isFieldMapped(tpl, SeqKey(j)))
  ELSE ""

\* FIELD_SEQUENCE.find(k => !isFieldMapped(tpl, k)), "" when every field is mapped
FirstUnmapped(tpl) ==
  IF \E i \in 0..LastIndex : ~isFieldMapped(tpl, SeqKey(i))
  THEN SeqKey(CHOOSE i \in 0..LastIndex :
                /\ ~isFieldMapped(tpl, SeqKey(i))
                /\ \A j \in 0..(i - 1) : isFieldMapped(tpl, SeqKey(j)))
  ELSE ""

\* AdvanceMax without the clamp to the last index of the sequence
AdvanceMaxUnclamped(savedIndex, maxIdx) ==
  IF savedIndex + 1 > maxIdx THEN savedIndex + 1 ELSE maxIdx

\* AdvanceMax following the saved field down as well as up
AdvanceMaxFollows(savedIndex, maxIdx) == Min2(savedIndex + 1, LastIndex)

\* advanceAfterFieldSave: the new maxUnlockedIndex after saving the field at
\* savedIndex (>= 0)
AdvanceMax(savedIndex, maxIdx) ==
  IF savedIndex + 1 > maxIdx THEN Min2(savedIndex + 1, LastIndex) ELSE maxIdx

\* initialiseWizardFromTemplate: maxUnlockedIndex computed from the template
InitMax(tpl) ==
  LET mapped == {i \in 0..LastIndex : isFieldMapped(tpl, SeqKey(i))}
      top == IF mapped = {} THEN 0 ELSE CHOOSE i \in mapped : \A j \in mapped : j <= i
  IN  IF mapped = {} THEN 0
      ELSE IF top < LastIndex THEN top + 1 ELSE top

\* SelectionBlocked blocking the field at the boundary as well
SelectionBlockedAtBoundary(key, maxIdx) == IndexOf(key) >= 0 /\ IndexOf(key) >= maxIdx

\* SelectionBlocked letting the field after the boundary through
SelectionBlockedLate(key, maxIdx) == IndexOf(key) >= 0 /\ IndexOf(key) > maxIdx + 1

\* the bm_field_choice change handler blocks the selection of key
SelectionBlocked(key, maxIdx) == IndexOf(key) >= 0 /\ IndexOf(key) > maxIdx

\* updateFieldRadiosLockState(tpl): radio.disabled for every field choice
LockState(tpl, maxIdx) ==
  [k \in FieldKeys |->
     IF k = "customer_map" THEN ~fieldsComplete(tpl) ELSE IndexOf(k) > maxIdx]

\* ------------------------------------------------------------ documents
\* The block index of a page as /api/inbound/blocks/preview returns it.
Block(id, page, text, x0, y0, x1, y1, lineY) ==
  [id |-> id, page |-> page, text |-> text,
   bbox |-> [x0 |-> x0, y0 |-> y0, x1 |-> x1, y1 |-> y1], line_y |-> lineY]

NoFile == "none"
Docs == {"D0", "D1"}
Pages == 1..2

\* One-page documents for the anchor resolver: document GeoNames[i][j] holds
\* a label block and, after it, the candidate blocks GeoCandidate(i) and
\* GeoCandidate(j) (one candidate when i = j).  Against the label the
\* candidates sit: 1 on its line to the right; 2 at the line tolerance and at
\* the slack of the right edge; 3 just past the line tolerance, nearer than
\* 1; 4 on its line, just left of the slack; 5 at the minimum gap below; 6
\* and 7 at one distance below, 7 nearer to its centre; 8 further below and
\* centred; 9 on its line with the left edge of 1.
GeoNames ==
  <<
    <<"G11", "G12", "G13", "G14", "G15", "G16", "G17", "G18", "G19">>,
    <<"G21", "G22", "G23", "G24", "G25", "G26", "G27", "G28", "G29">>,
    <<"G31", "G32", "G33", "G34", "G35", "G36", "G37", "G38", "G39">>,
    <<"G41", "G42", "G43", "G44", "G45", "G46", "G47", "G48", "G49">>,
    <<"G51", "G52", "G53", "G54", "G55", "G56", "G57", "G58", "G59">>,
    <<"G61", "G62", "G63", "G64", "G65", "G66", "G67", "G68", "G69">>,
    <<"G71", "G72", "G73", "G74", "G75", "G76", "G77", "G78", "G79">>,
    <<"G81", "G82", "G83", "G84", "G85", "G86", "G87", "G88", "G89">>,
    <<"G91", "G92", "G93", "G94", "G95", "G96", "G97", "G98", "G99">>
  >>

NumCandidates == Len(GeoNames)

GeoDocs == {GeoNames[i][j] : i, j \in 1..NumCandidates}

GeoLabel(id) == Block(id, 1, <<"N", ":">>, 40, 40, 120, 80, 40)

GeoCandidate(k, id) ==
  CASE k = 1 -> Block(id, 1, <<"1">>, 140, 40, 200, 80, 40)
    [] k = 2 -> Block(id, 1, <<"2">>, 118, 50, 178, 90, 50)
    [] k = 3 -> Block(id, 1, <<"3">>, 122, 51, 182, 91, 51)
    [] k = 4 -> Block(id, 1, <<"4">>, 117, 40, 177, 80, 40)
    [] k = 5 -> Block(id, 1, <<"5">>, 40, 84, 120, 124, 84)
    [] k = 6 -> Block(id, 1, <<"6">>, 200, 88, 280, 128, 88)
    [] k = 7 -> Block(id, 1, <<"7">>, 60, 88, 120, 128, 88)
    [] k = 8 -> Block(id, 1, <<"8">>, 40, 100, 120, 140, 100)
    [] OTHER -> Block(id, 1, <<"9">>, 140, 40, 260, 80, 40)

GeoBlocks(doc) ==
  LET ij == CHOOSE p \in (1..NumCandidates) \X (1..NumCandidates) :
              GeoNames[p[1]][p[2]] = doc
  IN  IF ij[1] = ij[2] THEN <<GeoLabel(1), GeoCandidate(ij[1], 2)>>
      ELSE <<GeoLabel(1), GeoCandidate(ij[1], 2), GeoCandidate(ij[2], 3)>>

DocBlocks(doc, page) ==
  CASE doc = "D0" /\ page = 1 ->
         <<Block(1, 1, <<"N", ":">>, 0, 0, 320, 40, 0)>>
    [] doc = "D1" /\ page = 1 ->
         <<Block(1, 1, <<"N", ":", " ", "x">>, 0, 0, 320, 40, 0),
           Block(2, 1, <<"7">>, 340, 0, 520, 40, 0)>>
    [] doc = "D1" /\ page = 2 ->
         <<Block(1, 2, <<>>, 0, 0, 200, 40, 0),
           Block(3, 2, <<"9">>, 40, 80, 160, 120, 80)>>
    [] doc \in GeoDocs /\ page = 1 -> GeoBlocks(doc)
    [] OTHER -> <<>>

\* pageData: the loaded page, <<>> before any page is loaded
NoPageData == [doc |-> NoFile, page |-> 0, blocks |-> <<>>]

\* centerOfBlock / the anchor of addToTemplate: the bounding-box centre
CentreX(b) == (b.bbox.x0 + b.bbox.x1) \div 2
CentreY(b) == (b.bbox.y0 + b.bbox.y1) \div 2

Abs(n) == IF n < 0 THEN -n ELSE n

\* FindValueBlock taking, to the right, blocks of every line
FindValueBlockAnyLine(blocks, labelBlock, dir) ==
  LET x1 == labelBlock.bbox.x1
      y1 == labelBlock.bbox.y1
      right == {i \in 1..Len(blocks) : blocks[i].bbox.x0 >= x1 - 2}
      below == {i \in 1..Len(blocks) : blocks[i].bbox.y0 > y1 + 4}
      labelCx == (labelBlock.bbox.x0 + x1) \div 2
      Before(i, j) ==
        LET dyA == blocks[i].bbox.y0 - y1
            dyB == blocks[j].bbox.y0 - y1
        IN  \/ dyA < dyB
            \/ /\ dyA = dyB
               /\ Abs(CentreX(blocks[i]) - labelCx) < Abs(CentreX(blocks[j]) - labelCx)
      RightLt(i, j) == blocks[i].bbox.x0 < blocks[j].bbox.x0
  IN  IF dir = "right"
      THEN IF right = {} THEN <<>>
           ELSE <<blocks[CHOOSE i \in right :
                           /\ \A j \in right : ~RightLt(j, i)
                           /\ \A j \in right : j < i => RightLt(i, j)]>>
      ELSE IF below = {} THEN <<>>
           ELSE <<blocks[CHOOSE i \in below :
                           /\ \A j \in below : ~Before(j, i)
                           /\ \A j \in below : j < i => Before(i, j)]>>

\* FindValueBlock ordering the blocks below by vertical distance alone
FindValueBlockNoTieBreak(blocks, labelBlock, dir) ==
  LET x1 == labelBlock.bbox.x1
      y1 == labelBlock.bbox.y1
      lineY == labelBlock.line_y
      right == {i \in 1..Len(blocks) :
                  /\ Abs(blocks[i].line_y - lineY) <= 10
                  /\ blocks[i].bbox.x0 >= x1 - 2}
      below == {i \in 1..Len(blocks) : blocks[i].bbox.y0 > y1 + 4}
      Before(i, j) == blocks[i].bbox.y0 - y1 < blocks[j].bbox.y0 - y1
      RightLt(i, j) == blocks[i].bbox.x0 < blocks[j].bbox.x0
  IN  IF dir = "right"
      THEN IF right = {} THEN <<>>
           ELSE <<blocks[CHOOSE i \in right :
                           /\ \A j \in right : ~RightLt(j, i)
                           /\ \A j \in right : j < i => RightLt(i, j)]>>
      ELSE IF below = {} THEN <<>>
           ELSE <<blocks[CHOOSE i \in below :
                           /\ \A j \in below : ~Before(j, i)
                           /\ \A j \in below : j < i => Before(i, j)]>>

\* findValueBlock(blocks, labelBlock, direction): <<>> for null.  The sort is
\* stable, so the first of the sorted candidates is the earliest block of
\* the list among those the comparator ranks lowest.
FindValueBlock(blocks, labelBlock, dir) ==
  LET x1 == labelBlock.bbox.x1
      y1 == labelBlock.bbox.y1
      lineY == labelBlock.line_y
      right == {i \in 1..Len(blocks) :
                  /\ Abs(blocks[i].line_y - lineY) <= 10
                  /\ blocks[i].bbox.x0 >= x1 - 2}
      below == {i \in 1..Len(blocks) : blocks[i].bbox.y0 > y1 + 4}
      labelCx == (labelBlock.bbox.x0 + x1) \div 2
      Before(i, j) ==
        LET dyA == blocks[i].bbox.y0 - y1
            dyB == blocks[j].bbox.y0 - y1
        IN  \/ dyA < dyB
            \/ /\ dyA = dyB
               /\ Abs(CentreX(blocks[i]) - labelCx) < Abs(CentreX(blocks[j]) - labelCx)
      RightLt(i, j) == blocks[i].bbox.x0 < blocks[j].bbox.x0
  IN  IF dir = "right"
      THEN IF right = {} THEN <<>>
           ELSE <<blocks[CHOOSE i \in right :
                           /\ \A j \in right : ~RightLt(j, i)
                           /\ \A j \in right : j < i => RightLt(i, j)]>>
      ELSE IF below = {} THEN <<>>
           ELSE <<blocks[CHOOSE i \in below :
                           /\ \A j \in below : ~Before(j, i)
                           /\ \A j \in below : j < i => Before(i, j)]>>

\* the square of distance(a, b) between a block centre and the point pt
Dist2(b, pt) ==
  (CentreX(b) - pt.x) * (CentreX(b) - pt.x) + (CentreY(b) - pt.y) * (CentreY(b) - pt.y)

\* FindNearestBlockToPoint measuring the horizontal distance alone
FindNearestByX(blocks, pt) ==
  IF blocks = <<>> THEN <<>>
  ELSE <<blocks[CHOOSE i \in 1..Len(blocks) :
                  /\ \A j \in 1..Len(blocks) :
                       Abs(CentreX(blocks[i]) - pt.x) <= Abs(CentreX(blocks[j]) - pt.x)
                  /\ \A j \in 1..(i - 1) :
                       Abs(CentreX(blocks[j]) - pt.x) > Abs(CentreX(blocks[i]) - pt.x)]>>

\* findNearestBlockToPoint(blocks, pt): <<>> for null; the scan keeps the
\* earliest block of the list among those at the least distance
FindNearestBlockToPoint(blocks, pt) ==
  IF blocks = <<>> THEN <<>>
  ELSE <<blocks[CHOOSE i \in 1..Len(blocks) :
                  /\ \A j \in 1..Len(blocks) : Dist2(blocks[i], pt) <= Dist2(blocks[j], pt)
                  /\ \A j \in 1..(i - 1) : Dist2(blocks[j], pt) > Dist2(blocks[i], pt)]>>

\* FIELD_INDEX[key] of drawMappedFieldOverlays, 0 for a key it does not hold
FIELD_INDEX(key) ==
  CASE key = "invoice_number" -> 1
    [] key = "issue_date" -> 2
    [] key = "amount_due" -> 3
    [] key = "customer_map" -> 4
    [] key = "due_date" -> 5
    [] OTHER -> 0

\* FieldPage taking the page of the template for every field
FieldPageOfTemplate(f, tpl) == IF tpl.page > 0 THEN tpl.page ELSE 1

\* fieldPage of drawMappedFieldOverlays for the entry f (with an anchor) of
\* tpl: anchor.page, else the page of the template, else 1
FieldPage(f, tpl) ==
  IF f.anchor[1].page > 0 THEN f.anchor[1].page
  ELSE IF tpl.page > 0 THEN tpl.page ELSE 1

\* the direction drawMappedFieldOverlays replays for a stored direction
ReplayDir(dir) == IF dir = "below" THEN "below" ELSE "right"

\* drawMappedFieldOverlays: the highlight boxes drawn for the template tpl on
\* the blocks pd with bm_page showing pageNum
DrawMappedFieldOverlays(tpl, pd, pageNum) ==
  LET blocksOnPage == SelectSeq(pd.blocks, LAMBDA b : b.page = pageNum)
      Pieces(f) ==
        IF f.anchor = <<>> \/ FIELD_INDEX(f.field_key) = 0 THEN {}
        ELSE IF FieldPage(f, tpl) # pageNum THEN {}
        ELSE LET labelBlock == FindNearestBlockToPoint(blocksOnPage, f.anchor[1])[1]
                 valueBlock == FindValueBlock(blocksOnPage, labelBlock,
                                              ReplayDir(f.direction))
             IN  {[key |-> f.field_key, role |-> "label", id |-> labelBlock.id]}
                 \cup (IF valueBlock # <<>> /\ valueBlock[1] # labelBlock
                       THEN {[key |-> f.field_key, role |-> "value",
                              id |-> valueBlock[1].id]}
                       ELSE {})
  IN  IF tpl.fshape # "array" \/ pd.blocks = <<>> \/ blocksOnPage = <<>> THEN {}
      ELSE UNION {Pieces(tpl.fields[i]) : i \in 1..Len(tpl.fields)}

\* ------------------------------------------------- the external server
\* The preview endpoint is not part of the repository: it is modelled from
\* the specification's live-preview contract (value block in the given
\* direction from the anchor block, else the rest of the label's own text
\* after the trigger).  <<>> when the anchor block id is not on the page.
IsPrefix(p, s) == Len(p) <= Len(s) /\ SubSeq(s, 1, Len(p)) = p

ServerPreview(doc, page, anchorId, trigger, dir) ==
  LET blocks == DocBlocks(doc, page)
      found == {i \in 1..Len(blocks) : blocks[i].id = anchorId}
  IN  IF found = {} THEN <<>>
      ELSE LET label == blocks[CHOOSE i \in found : TRUE]
               vb == FindValueBlock(blocks, label, dir)
               txt == Trim(label.text)
           IN  IF vb # <<>> /\ vb[1].id # label.id THEN <<Trim(vb[1].text)>>
               ELSE IF trigger # <<>> /\ IsPrefix(trigger, txt)
                    THEN <<Trim(SubSeq(txt, Len(trigger) + 1, Len(txt)))>>
                    ELSE << <<>> >>

\* Template names the server knows; a request without a name is served
\* under DefaultName.
Names == {"A", "B"}
DefaultName == "A"
ServerName(n) == IF n = "" THEN DefaultName ELSE n

\* --------------------------------------------------------------- state
VARIABLES
  txtTpl,            \* bm_template textarea: <<>> blank, else <<template>>
  fPage,             \* bm_page input
  fPdf,              \* file chosen in bm_pdf_file, NoFile when none
  storedPdfFile,     \* server-backed PDF, NoFile when none
  pageData,          \* blocks of the loaded page
  overlay,           \* ids of the clickable bm-box elements
  mappedBoxes,       \* the bm-mapped-box highlights: field key, role, block id
  selectedIds,       \* the Set selectedIds, in insertion order
  inpTrigger,        \* bm_trigger_text input
  direction,         \* the checked direction radio
  selFilter,         \* bm_filter select
  liveSpan,          \* bm_live text
  customerBy,        \* uiState.customerBy
  currentFieldIndex,
  maxUnlockedIndex,
  selField,          \* bm_field select: the active field key
  radioChecked,      \* the checked bm_field_choice radio
  radioDisabled,     \* radio.disabled of every bm_field_choice radio
  statusDot,         \* vm-dot--ok of every status dot
  sideValue,         \* value part of every bm_value_<key> line
  inpTemplateName,   \* bm_template_name input
  options,           \* template names offered by bm_template_selector
  server,            \* the server's template store: name -> <<>> or <<template>>
  saves,             \* save-template requests in flight
  lists,             \* templates-list requests in flight
  loads,             \* load-template requests in flight
  downloads,         \* download-pdf requests in flight
  blockLoads,        \* loadBlocks() calls awaiting render + blocks
  previews,          \* preview-by-trigger requests in flight, in issue order
  newestPending,     \* history: the preview request issued last is still in flight
  liveStale,         \* history: liveSpan shows an answer that arrived after its context was left
  liveNewest,        \* history: liveSpan shows the answer to the request issued last
  addsLeft,          \* the number of mappings the user still adds
  ev                 \* history: the handler that ran last, its input and alert

wizardVars == <<currentFieldIndex, maxUnlockedIndex, selField, radioChecked, radioDisabled>>
pendingVars == <<selectedIds, inpTrigger>>
sideVars == <<statusDot, sideValue>>
docVars == <<fPage, fPdf, storedPdfFile, pageData>>
tplNetVars == <<server, saves, lists, loads, downloads, inpTemplateName, options>>
histVars == <<newestPending, liveStale, liveNewest, addsLeft>>
blockVars ==
  <<txtTpl, fPage, fPdf, storedPdfFile, pageData, overlay, mappedBoxes, selectedIds,
    inpTrigger, direction, selFilter, liveSpan, customerBy, currentFieldIndex, maxUnlockedIndex,
    selField, radioChecked, radioDisabled, statusDot, sideValue, inpTemplateName,
    options, server, saves, lists, loads, downloads, blockLoads, previews,
    newestPending, liveStale, liveNewest, addsLeft, ev>>

Dash == <<"-">>
\* ev: the handler, the field key it was about, the alert it raised and, for
\* the answer to a preview request, whether the request was the one issued
\* last and whether it was issued in the context (field, page, document,
\* template) that is current when the answer arrives
Ev(op, key, alert) ==
  [op |-> op, key |-> key, alert |-> alert, newest |-> TRUE, current |-> TRUE]
EvPreview(alert, isNewest, isCurrent) ==
  [op |-> "previewResponse", key |-> "", alert |-> alert, newest |-> isNewest,
   current |-> isCurrent]

\* history: every preview request in flight now belongs to a context left
LeaveContext(reqs) == [i \in 1..Len(reqs) |-> [reqs[i] EXCEPT !.current = FALSE]]

\* what every handler but the preview answer leaves in ev
Other == [op |-> "other", key |-> "", alert |-> "", newest |-> TRUE, current |-> TRUE]

\* ------------------------------------------------- HTML-template mapper
MaxHtmlSamples == 1
\* The three versions of the HTML-template mapper script in the sources.
\* Text is a sequence of one-character strings.  The only white space in
\* the texts modelled is the blank.
Scripts == {"settings_html_import", "part_001", "part_003"}

DigitChars == <<"0", "1", "2", "3", "4", "5", "6", "7", "8", "9">>
DigitSet == Range(DigitChars)
LowerChars ==
  <<"a", "b", "c", "d", "e", "f", "g", "h", "i", "j", "k", "l", "m", "n", "o",
    "p", "q", "r", "s", "t", "u", "v", "w", "x", "y", "z">>
UpperChars ==
  <<"A", "B", "C", "D", "E", "F", "G", "H", "I", "J", "K", "L", "M", "N", "O",
    "P", "Q", "R", "S", "T", "U", "V", "W", "X", "Y", "Z">>
LetterSet == Range(LowerChars) \cup Range(UpperChars)
\* s.toLowerCase()
ToLowerCase(s) ==
  [i \in 1..Len(s) |->
     IF s[i] \in Range(UpperChars)
     THEN LowerChars[CHOOSE n \in 1..Len(UpperChars) : UpperChars[n] = s[i]]
     ELSE s[i]]
\* \w and \s of the regular expressions
WordSet == DigitSet \cup LetterSet \cup {"_"}
SpaceSet == {" "}

\* the number of elements of s from index i on that lie in chars, up to the
\* first that does not
RunLen(s, i, chars) ==
  CHOOSE n \in 0..Len(s) :
    /\ i + n - 1 <= Len(s)
    /\ \A k \in i..(i + n - 1) : s[k] \in chars
    /\ (i + n > Len(s) \/ s[i + n] \notin chars)

\* s.indexOf(t, from) counted from 1: the first index >= from at which t
\* occurs in s, 0 when there is none
IndexOfFrom(s, t, from) ==
  LET First(at) == IF at = {} THEN 0 ELSE CHOOSE i \in at : \A j \in at : i <= j
  IN  First({i \in from..(Len(s) - Len(t) + 1) : SubSeq(s, i, i + Len(t) - 1) = t})

\* s.slice(0, n)
SliceTo(s, n) == IF Len(s) > n THEN SubSeq(s, 1, n) ELSE s

\* s.slice(-n)
SliceLast(s, n) == IF Len(s) > n THEN SubSeq(s, Len(s) - n + 1, Len(s)) ELSE s

\* s.replace(/\s+/g, ' '): of every run of white space one blank is left
CollapseSpace(s) ==
  LET Kept(kept) ==
        [i \in 1..Len(kept) |-> IF kept[i][1] \in SpaceSet THEN " " ELSE kept[i][1]]
  IN  Kept(SelectSeq([i \in 1..Len(s) |-> <<s[i], i > 1 /\ s[i - 1] \in SpaceSet>>],
                     LAMBDA p : ~(p[1] \in SpaceSet /\ p[2])))

\* value.replace(/\D+/g, '')
StripNonDigits(value) == SelectSeq(value, LAMBDA c : c \in DigitSet)

\* the decimal digits digits as a number
RECURSIVE DigitsToNat(_)
DigitsToNat(digits) ==
  IF digits = <<>> THEN 0
  ELSE 10 * DigitsToNat(SubSeq(digits, 1, Len(digits) - 1))
       + ((CHOOSE n \in 1..10 : DigitChars[n] = digits[Len(digits)]) - 1)

\* String(n) of a natural number n
RECURSIVE NatToDigits(_)
NatToDigits(n) ==
  IF n < 10 THEN <<DigitChars[n + 1]>>
  ELSE NatToDigits(n \div 10) \o <<DigitChars[(n % 10) + 1]>>

\* value.match(/([0-9]{1,3}(?:,[0-9]{3})*(?:\.[0-9]+)?|[0-9]+(?:\.[0-9]+)?)/):
\* <<>> without a digit, else <<match[1]>>.  The match starts at the first
\* digit; there the first alternative matches, with one to three digits,
\* then every ",ddd" that follows, then ".d+" if it follows, so the second
\* alternative is never tried.
NumberMatch(value) ==
  LET starts == {i \in 1..Len(value) : value[i] \in DigitSet}
      IsGroup(q) == /\ q + 3 <= Len(value)
                    /\ value[q] = ","
                    /\ \A k \in (q + 1)..(q + 3) : value[k] \in DigitSet
      \* the match from its start i, p behind its first one to three digits
      From(i, p) ==
        LET \* q behind the last ",ddd"
            Groups(q) ==
              LET Fraction(frac) ==
                    <<SubSeq(value, i, IF frac > 0 THEN q + frac ELSE q - 1)>>
              IN  Fraction(IF q + 1 <= Len(value) /\ value[q] = "."
                           THEN RunLen(value, q + 1, DigitSet) ELSE 0)
        IN  Groups(p + 4 * (CHOOSE n \in 0..Len(value) :
                              /\ \A m \in 0..(n - 1) : IsGroup(p + 4 * m)
                              /\ ~IsGroup(p + 4 * n)))
      Start(i) == From(i, i + Min2(RunLen(value, i, DigitSet), 3))
  IN  IF starts = {} THEN <<>>
      ELSE Start(CHOOSE a \in starts : \A b \in starts : a <= b)

\* parseFloat(m.replace(/,/g, '')).toFixed(2) for a matched number m.  A tie
\* in the third decimal is rounded up here, where toFixed decides by the
\* binary value of the number; the texts modelled hold no such tie.
NumberToFixed(m) ==
  LET Parts(plain, dot) ==
        LET Fixed(int, frac) ==
              LET digit(k) == IF k <= Len(frac) THEN DigitsToNat(<<frac[k]>>) ELSE 0
                  Cents(cents) ==
                    NatToDigits(cents \div 100) \o <<".">>
                    \o <<DigitChars[((cents % 100) \div 10) + 1],
                         DigitChars[(cents % 10) + 1]>>
              IN  Cents(DigitsToNat(int) * 100 + digit(1) * 10 + digit(2)
                        + (IF digit(3) >= 5 THEN 1 ELSE 0))
        IN  Fixed(IF dot = 0 THEN plain ELSE SubSeq(plain, 1, dot - 1),
                  IF dot = 0 THEN <<>> ELSE SubSeq(plain, dot + 1, Len(plain)))
      Plain(plain) == Parts(plain, IndexOfFrom(plain, <<".">>, 1))
  IN  Plain(SelectSeq(m, LAMBDA c : c # ","))

\* \b between the elements i - 1 and i of s
WordBoundary(s, i) ==
  (i - 1 >= 1 /\ s[i - 1] \in WordSet) # (i <= Len(s) /\ s[i] \in WordSet)

\* the length of the match of \b\d{1,2}\/\d{1,2}\/\d{4}\b that starts at
\* index i of value, 0 when there is none
SlashDateAt(value, i) ==
  LET Day(d1) ==
        LET j == i + d1 + 1
            Month(d2) ==
              LET y == j + d2 + 1
              IN  IF /\ WordBoundary(value, i)
                     /\ d1 \in 1..2
                     /\ i + d1 <= Len(value) /\ value[i + d1] = "/"
                     /\ d2 \in 1..2
                     /\ j + d2 <= Len(value) /\ value[j + d2] = "/"
                     /\ y + 3 <= Len(value)
                     /\ \A k \in y..(y + 3) : value[k] \in DigitSet
                     /\ WordBoundary(value, y + 4)
                  THEN y + 4 - i ELSE 0
        IN  Month(IF j <= Len(value) THEN RunLen(value, j, DigitSet) ELSE 0)
  IN  Day(RunLen(value, i, DigitSet))

\* the same for \b\d{1,2}\s+[A-Za-z]{3,9}\s+\d{4}\b
WordDateAt(value, i) ==
  LET Day(d1) ==
        LET Gap(s1) ==
              LET a == i + d1 + s1
                  Month(l) ==
                    LET Year(s2) ==
                          LET y == a + l + s2
                          IN  IF /\ WordBoundary(value, i)
                                 /\ d1 \in 1..2
                                 /\ s1 >= 1
                                 /\ l \in 3..9
                                 /\ s2 >= 1
                                 /\ y + 3 <= Len(value)
                                 /\ \A k \in y..(y + 3) : value[k] \in DigitSet
                                 /\ WordBoundary(value, y + 4)
                              THEN y + 4 - i ELSE 0
                    IN  Year(IF a + l <= Len(value)
                             THEN RunLen(value, a + l, SpaceSet) ELSE 0)
              IN  Month(IF a <= Len(value) THEN RunLen(value, a, LetterSet) ELSE 0)
        IN  Gap(IF i + d1 <= Len(value) THEN RunLen(value, i + d1, SpaceSet) ELSE 0)
  IN  Day(RunLen(value, i, DigitSet))

\* the date branch of applyFilter: the first match of the first expression,
\* else the first match of the second, else value
DateFilter(value) ==
  LET first(S) == CHOOSE a \in S : \A b \in S : a <= b
      Slash(i) == SubSeq(value, i, i + SlashDateAt(value, i) - 1)
      Word(i) == SubSeq(value, i, i + WordDateAt(value, i) - 1)
      Matches(slash, word) ==
        IF slash # {} THEN Slash(first(slash))
        ELSE IF word # {} THEN Word(first(word))
        ELSE value
  IN  Matches({i \in 1..Len(value) : SlashDateAt(value, i) > 0},
              {i \in 1..Len(value) : WordDateAt(value, i) > 0})

\* value.replace(/\s*\([^)]*\)\s*/g, ' '): the first match starts at the
\* white space before the first "(" that has a ")" after it and ends after
\* the white space behind that ")"
RECURSIVE ReplaceParentheses(_)
ReplaceParentheses(value) ==
  LET Pair(open, close) ==
        IF close = 0 THEN value
        ELSE
          LET before == CHOOSE n \in 0..(open - 1) :
                          /\ \A k \in (open - n)..(open - 1) : value[k] \in SpaceSet
                          /\ (open - n - 1 = 0 \/ value[open - n - 1] \notin SpaceSet)
              after == IF close + 1 <= Len(value)
                       THEN RunLen(value, close + 1, SpaceSet) ELSE 0
          IN  SubSeq(value, 1, open - before - 1) \o <<" ">>
              \o ReplaceParentheses(SubSeq(value, close + after + 1, Len(value)))
      Open(open) == Pair(open, IF open = 0 THEN 0
                               ELSE IndexOfFrom(value, <<")">>, open + 1))
  IN  Open(IndexOfFrom(value, <<"(">>, 1))

\* the FilterSpec objects: "" and <<>> stand for a missing member, group -1
\* for a group that is no finite number; derived holds the token filter a
\* highlight was turned into
FilterSpecOf(type, token, left, right, pattern, group, selected_text) ==
  [type |-> type, token |-> token, left |-> left, right |-> right,
   pattern |-> pattern, group |-> group, selected_text |-> selected_text,
   derived |-> <<>>]
TypeOnly(type) == FilterSpecOf(type, <<>>, <<>>, <<>>, <<>>, -1, <<>>)
NoFilterSpec == TypeOnly("")
\* a || b for filter specs
OrSpec(a, b) == IF a # NoFilterSpec THEN a ELSE b

\* filterForField(fieldKey), NoFilterSpec for null
filterForField(fieldKey) ==
  CASE fieldKey = "invoice_number" -> TypeOnly("digits_only")
    [] fieldKey = "issue_date" -> TypeOnly("date")
    [] fieldKey = "due_date" -> TypeOnly("date")
    [] fieldKey = "amount_due" -> TypeOnly("amount")
    [] OTHER -> NoFilterSpec

\* new RegExp(pattern, 'i') for the patterns modelled: literal characters
\* with at most one pair of parentheses.  A parenthesis without its partner
\* is a SyntaxError.
RegExpThrows(pattern) ==
  LET Pair(open, close) == (open = 0) # (close = 0) \/ close < open
  IN  Pair(IndexOfFrom(pattern, <<"(">>, 1), IndexOfFrom(pattern, <<")">>, 1))

\* rx.exec(value) for a pattern that compiles, letters matching in either
\* case: <<>> for null, else
\* <<match>>, match[0] the text matched and match[1], when the pattern has
\* a group, what the group captured
RegExpExec(pattern, value) ==
  LET text(from, len) == SubSeq(value, from, from + len - 1)
      Pair(open, close) ==
        LET Parts(pre, mid, post) ==
              LET Found(at) ==
                    IF at = 0 THEN <<>>
                    ELSE <<IF open = 0 THEN <<text(at, Len(pre) + Len(mid) + Len(post))>>
                           ELSE <<text(at, Len(pre) + Len(mid) + Len(post)),
                                  text(at + Len(pre), Len(mid))>>>>
              IN  Found(IndexOfFrom(ToLowerCase(value),
                                    ToLowerCase(pre \o mid \o post), 1))
        IN  Parts(IF open = 0 THEN pattern ELSE SubSeq(pattern, 1, open - 1),
                  IF open = 0 THEN <<>> ELSE SubSeq(pattern, open + 1, close - 1),
                  IF open = 0 THEN <<>> ELSE SubSeq(pattern, close + 1, Len(pattern)))
  IN  Pair(IndexOfFrom(pattern, <<"(">>, 1), IndexOfFrom(pattern, <<")">>, 1))

\* the regex branch of applyFilter
RegexFilter(value, filterSpec) ==
  LET group == IF filterSpec.group >= 0 THEN filterSpec.group ELSE 1
      Found(found) ==
        IF found = <<>> THEN value
        ELSE IF group + 1 <= Len(found[1]) THEN Trim(found[1][group + 1])
        ELSE <<>>
  IN  IF RegExpThrows(filterSpec.pattern) THEN value
      ELSE Found(RegExpExec(filterSpec.pattern, value))

\* the digits_only branch of part_001 and part_003
DigitsAsNumber(value) ==
  LET Match(match) == IF match = <<>> THEN StripNonDigits(value)
                      ELSE NumberToFixed(match[1])
  IN  Match(NumberMatch(value))

\* the amount branch of settings_html_import.js
AmountFilter(value) ==
  LET Match(match) == IF match = <<>> THEN value ELSE NumberToFixed(match[1])
  IN  Match(NumberMatch(value))

\* the after_token, before_token and between_tokens branches
AfterToken(value, token) ==
  LET At(at) == IF at = 0 THEN value
                ELSE Trim(SubSeq(value, at + Len(token), Len(value)))
  IN  At(IndexOfFrom(value, token, 1))
BeforeToken(value, token) ==
  LET At(at) == IF at = 0 THEN value ELSE Trim(SubSeq(value, 1, at - 1))
  IN  At(IndexOfFrom(value, token, 1))
BetweenTokens(value, left, right) ==
  LET Left(leftIdx) ==
        LET Right(rightIdx) ==
              IF leftIdx = 0 \/ rightIdx = 0 THEN value
              ELSE Trim(SubSeq(value, leftIdx + Len(left), rightIdx - 1))
        IN  Right(IF leftIdx = 0 THEN 0
                  ELSE IndexOfFrom(value, right, leftIdx + Len(left)))
  IN  Left(IndexOfFrom(value, left, 1))

\* applyFilter returning the trimmed raw value for every spec
applyFilterRaw(script, raw, filterSpec) == Trim(raw)

\* applyFilter(raw, filterSpec) of the version script
applyFilter(script, raw, filterSpec) ==
  LET type == filterSpec.type
      tokens == script # "settings_html_import"
      Value(value) ==
        IF type = "" \/ type = "none" THEN value
        ELSE IF type = "highlight_text" /\ script = "part_003"
        THEN filterSpec.selected_text
        ELSE IF type = "digits_only"
        THEN IF tokens THEN DigitsAsNumber(value) ELSE StripNonDigits(value)
        ELSE IF type = "amount" /\ ~tokens THEN AmountFilter(value)
        ELSE IF type = "date" THEN DateFilter(value)
        ELSE IF type = "strip_parentheses" /\ ~tokens
        THEN Trim(ReplaceParentheses(value))
        ELSE IF type = "after_token" /\ tokens /\ filterSpec.token # <<>>
        THEN AfterToken(value, filterSpec.token)
        ELSE IF type = "before_token" /\ tokens /\ filterSpec.token # <<>>
        THEN BeforeToken(value, filterSpec.token)
        ELSE IF /\ type = "between_tokens" /\ tokens
                /\ filterSpec.left # <<>> /\ filterSpec.right # <<>>
        THEN BetweenTokens(value, filterSpec.left, filterSpec.right)
        ELSE IF type = "regex" /\ tokens /\ filterSpec.pattern # <<>>
        THEN RegexFilter(value, filterSpec)
        ELSE value
  IN  Value(Trim(raw))

\* the texts the scripts write into the badges, and the slice lengths of
\* handlePreviewClick and deriveTokenFilter
PlaceholderText == <<"H", "T", "M", "L", " ", "p", "r", "e", "v", "i", "e", "w", " ", "p", "l", "a", "c", "e", "h", "o", "l", "d", "e", "r">>
MappedText == <<"m", "a", "p", "p", "e", "d">>
SelectedText == <<"(", "s", "e", "l", "e", "c", "t", "e", "d", ")">>
SampleLength == 120
TokenLength == 20

\* ------------------------------------------- HTML-template mapper: state
\* the page's field radios
HtmlKeys == {"invoice_number", "issue_date", "due_date", "amount_due", "customer_name"}
\* the one template name of the account
HtmlName == "T"

\* A document is the sequence of the element children of its body, each
\* with its tag and its textContent; the path of the i-th child is the one
\* step [tag, index i - 1].
Element(tag, text) == [tag |-> tag, text |-> text]
PathOf(doc, i) == <<[tag |-> doc[i].tag, index |-> i - 1]>>
\* setPreview(''): the placeholder document
PlaceholderDoc == <<Element("div", PlaceholderText)>>

\* An entry of templateJson.fields: path <<>> when the entry has none
\* (the radio handler writes { filter } alone).
FieldEntry(path, filter) == [path |-> path, filter |-> filter]
NoFields == [k \in HtmlKeys |-> <<>>]

VARIABLES
  script,            \* the version of the mapper script the page runs
  previewDoc,        \* the document in the html_preview frame
  previewPending,    \* <<doc>> while a document set by setPreview loads
  replayOnLoad,      \* the once-listener loadTemplate put on the frame
  lastEmailHtml,     \* the sample email of the loaded template
  templateJson,      \* templateJson.fields: per key <<>> or <<entry>>
  activeFieldKey,    \* "" before a field radio is chosen
  activeTemplateName,
  fieldSamples,      \* per key the text last captured, <<>> for none
  fieldBadge,        \* html_field_value_<key> without its arrow
  mapperFiltered,    \* html_mapper_filtered
  filterSelect,      \* html_filter_select
  filterParamA,      \* html_filter_param_a
  filterParamB,      \* html_filter_param_b
  htmlServer,        \* the stored template: template_json and sample email
  htmlSaves,         \* save-template requests in flight
  htmlLists,         \* templates requests in flight
  htmlLoads,         \* load-template requests in flight
  htmlSamples,       \* sample requests in flight
  htmlSavesLeft,     \* saves the user has left
  emailsLeft,        \* emails still to arrive
  shown,             \* history: per key what the last click showed, of which
                     \* element, with which text and filter
  hev                \* history: the last mapper handler, or the message it
                     \* put in html_mapper_msg when it refused, and its key;
                     \* "replay" when it wrote the badges of a loaded template

htmlVars ==
  <<script, previewDoc, previewPending, replayOnLoad, lastEmailHtml, templateJson,
    activeFieldKey, activeTemplateName, fieldSamples, fieldBadge, mapperFiltered,
    filterSelect, filterParamA, filterParamB, htmlServer, htmlSaves,
    htmlLists, htmlLoads, htmlSamples, htmlSavesLeft, emailsLeft, shown, hev>>

HEv(op, key) == [op |-> op, key |-> key]
NotShown == [value |-> <<>>, text |-> <<>>, filter |-> NoFilterSpec, el |-> 0]

\* the page after the script ran: the placeholder in the frame and the
\* first loadTemplates() in flight
InitHtmlMapper(s, stored, email, budget, emails) ==
  /\ script = s
  /\ previewDoc = PlaceholderDoc
  /\ previewPending = <<>>
  /\ replayOnLoad = FALSE
  /\ lastEmailHtml = <<>>
  /\ templateJson = NoFields
  /\ activeFieldKey = ""
  /\ activeTemplateName = ""
  /\ fieldSamples = [k \in HtmlKeys |-> <<>>]
  /\ fieldBadge = [k \in HtmlKeys |-> <<>>]
  /\ mapperFiltered = <<>>
  /\ filterSelect = "none"
  /\ filterParamA = <<>>
  /\ filterParamB = <<>>
  /\ htmlServer = [template_json |-> stored, html_email_body |-> email]
  /\ htmlSaves = <<>>
  /\ htmlLists = 1
  /\ htmlLoads = 0
  /\ htmlSamples = 0
  /\ htmlSavesLeft = budget
  /\ emailsLeft = emails
  /\ shown = [k \in HtmlKeys |-> NotShown]
  /\ hev = HEv("", "")

\* a || b for texts
OrText(a, b) == IF a # <<>> THEN a ELSE b

\* the filter of fields[key], NoFilterSpec for a missing entry or filter
FilterAt(fields, key) == IF fields[key] = <<>> THEN NoFilterSpec ELSE fields[key][1].filter

\* (el.textContent || '').trim().replace(/\s+/g, ' ')
ElementText(el) == CollapseSpace(Trim(el.text))

\* getNodeByPath(path) in doc: <<>> for null, else <<element>>
getNodeByPath(doc, path) ==
  IF path = <<>> THEN <<>>
  ELSE LET step == path[1]
       IN  IF step.index < 0 \/ step.index >= Len(doc) THEN <<>>
           ELSE IF doc[step.index + 1].tag # step.tag THEN <<>>
           ELSE <<doc[step.index + 1]>>

\* getValueFromSpec(spec) for an entry of attr 'text'
getValueFromSpec(doc, entry) ==
  IF getNodeByPath(doc, entry.path) = <<>> THEN <<>>
  ELSE ElementText(getNodeByPath(doc, entry.path)[1])

\* what updateFilterPreview(fieldKey) leaves in html_mapper_filtered
updateFilterPreview(fields, samples, fieldKey) ==
  IF fieldKey = "" THEN mapperFiltered
  ELSE LET spec == FilterAt(fields, fieldKey)
           filtered == IF /\ script = "part_003"
                          /\ spec.type = "highlight_text"
                          /\ spec.selected_text # <<>>
                       THEN spec.selected_text
                       ELSE applyFilter(script, samples[fieldKey], spec)
       IN  OrText(filtered, Dash)

\* the keys the replay of loadTemplate visits
ReplayKeys(fields) ==
  {k \in HtmlKeys : /\ fields[k] # <<>>
                    /\ (script = "part_003" => fields[k][1].path # <<>>)}

\* the samples and the badges after the replay of fields on doc
ReplaySamples(fields, doc) ==
  [k \in HtmlKeys |-> IF k \in ReplayKeys(fields)
                      THEN getValueFromSpec(doc, fields[k][1]) ELSE fieldSamples[k]]
ReplayBadges(fields, doc) ==
  [k \in HtmlKeys |->
     IF k \in ReplayKeys(fields)
     THEN LET rawValue == getValueFromSpec(doc, fields[k][1])
          IN  OrText(applyFilter(script, rawValue, fields[k][1].filter),
                     OrText(rawValue, IF script = "part_003" THEN <<>> ELSE MappedText))
     ELSE IF script = "part_003" THEN <<>> ELSE fieldBadge[k]]

\* syncFilterParams(filterSpec): the two parameter inputs
ParamAOf(spec) ==
  CASE spec.type \in {"after_token", "before_token"} -> spec.token
    [] spec.type = "between_tokens" -> spec.left
    [] spec.type = "regex" -> spec.pattern
    [] OTHER -> <<>>
ParamBOf(spec) ==
  CASE spec.type = "between_tokens" -> spec.right
    [] spec.type = "regex" -> IF spec.group >= 0 THEN NatToDigits(spec.group) ELSE <<>>
    [] OTHER -> <<>>
\* setFilterSelect(filterSpec)
setFilterSelect(spec) ==
  /\ filterSelect' = IF spec.type = "" THEN "none" ELSE spec.type
  /\ IF script = "settings_html_import"
     THEN UNCHANGED <<filterParamA, filterParamB>>
     ELSE filterParamA' = ParamAOf(spec) /\ filterParamB' = ParamBOf(spec)

netVars == <<htmlServer, htmlSaves, htmlLists, htmlLoads, htmlSamples, htmlSavesLeft, emailsLeft>>
frameVars == <<previewDoc, previewPending, replayOnLoad, lastEmailHtml>>

\* the radio handler as it would be under the sequence lock of the block
\* mapper: a key other than invoice_number is refused while invoice_number
\* has no path
HtmlRadioChangeInSequence(key) ==
  LET locked == /\ key # "invoice_number"
                /\ (templateJson["invoice_number"] = <<>>
                    \/ templateJson["invoice_number"][1].path = <<>>)
      existing == OrSpec(FilterAt(templateJson, key), filterForField(key))
      fields == [templateJson EXCEPT ![key] =
                   IF @ = <<>> THEN <<FieldEntry(<<>>, existing)>>
                   ELSE IF @[1].filter = NoFilterSpec
                   THEN <<[@[1] EXCEPT !.filter = existing]>>
                   ELSE @]
  IN  /\ hev' = HEv("radio", key)
      /\ IF locked
         THEN UNCHANGED <<activeFieldKey, templateJson, filterSelect, filterParamA,
                          filterParamB, mapperFiltered>>
         ELSE /\ activeFieldKey' = key
              /\ templateJson' = fields
              /\ setFilterSelect(FilterAt(fields, key))
              /\ mapperFiltered' = updateFilterPreview(fields, fieldSamples, key)
      /\ UNCHANGED <<script, frameVars, activeTemplateName, fieldSamples, fieldBadge,
                     netVars, shown>>
      /\ UNCHANGED blockVars

\* ------------------------------------------ HTML-template mapper: actions
\* change of a field radio
HtmlRadioChange(key) ==
  LET existing == OrSpec(FilterAt(templateJson, key), filterForField(key))
      fields == [templateJson EXCEPT ![key] =
                   IF @ = <<>> THEN <<FieldEntry(<<>>, existing)>>
                   ELSE IF @[1].filter = NoFilterSpec
                   THEN <<[@[1] EXCEPT !.filter = existing]>>
                   ELSE @]
  IN  /\ activeFieldKey' = key
      /\ templateJson' = fields
      /\ setFilterSelect(FilterAt(fields, key))
      /\ mapperFiltered' = updateFilterPreview(fields, fieldSamples, key)
      /\ hev' = HEv("radio", key)
      /\ UNCHANGED <<script, frameVars, activeTemplateName, fieldSamples, fieldBadge,
                     netVars, shown>>
      /\ UNCHANGED blockVars

\* handlePreviewClick on the i-th element of the frame
HandlePreviewClick(i) ==
  /\ i \in 1..Len(previewDoc)
  /\ IF activeFieldKey = ""
     THEN /\ hev' = HEv("Select a field first.", "")
          /\ UNCHANGED <<templateJson, fieldSamples, fieldBadge, mapperFiltered,
                         filterSelect, filterParamA, filterParamB, shown>>
     ELSE LET textValue == SliceTo(ElementText(previewDoc[i]), SampleLength)
              filter == OrSpec(FilterAt(templateJson, activeFieldKey),
                               filterForField(activeFieldKey))
              fields == [templateJson EXCEPT ![activeFieldKey] =
                           <<FieldEntry(PathOf(previewDoc, i), filter)>>]
              samples == [fieldSamples EXCEPT ![activeFieldKey] = textValue]
              displayValue == applyFilter(script, textValue, filter)
              badge == OrText(displayValue, OrText(textValue, SelectedText))
          IN  /\ templateJson' = fields
              /\ fieldSamples' = samples
              /\ fieldBadge' = [fieldBadge EXCEPT ![activeFieldKey] = badge]
              /\ setFilterSelect(filter)
              /\ mapperFiltered' = updateFilterPreview(fields, samples, activeFieldKey)
              /\ shown' = [shown EXCEPT ![activeFieldKey] =
                             [value |-> badge, text |-> ElementText(previewDoc[i]),
                              filter |-> filter, el |-> i]]
              /\ hev' = HEv("click", activeFieldKey)
  /\ UNCHANGED <<script, frameVars, activeFieldKey, activeTemplateName, netVars>>
  /\ UNCHANGED blockVars

\* change of html_filter_select to the option selected
HtmlFilterChange(selected) ==
  /\ selected # filterSelect
  /\ filterSelect' = selected
  /\ IF activeFieldKey = ""
     THEN UNCHANGED <<templateJson, fieldBadge, mapperFiltered, filterParamA, filterParamB>>
     ELSE LET spec == TypeOnly(selected)
              fields == [templateJson EXCEPT ![activeFieldKey] =
                           IF @ = <<>> THEN <<FieldEntry(<<>>, spec)>>
                           ELSE <<[@[1] EXCEPT !.filter = spec]>>]
              sample == fieldSamples[activeFieldKey]
          IN  /\ templateJson' = fields
              /\ mapperFiltered' = updateFilterPreview(fields, fieldSamples, activeFieldKey)
              /\ fieldBadge' = [fieldBadge EXCEPT ![activeFieldKey] =
                                  OrText(applyFilter(script, sample, spec),
                                         OrText(sample, MappedText))]
              /\ IF script = "settings_html_import"
                 THEN UNCHANGED <<filterParamA, filterParamB>>
                 ELSE filterParamA' = <<>> /\ filterParamB' = <<>>
  /\ hev' = HEv("filter", activeFieldKey)
  /\ UNCHANGED <<script, frameVars, activeFieldKey, activeTemplateName, fieldSamples,
                 netVars, shown>>
  /\ UNCHANGED blockVars

\* parseInt(text || '1', 10) and the isFinite test of paramHandler
ParamGroup(text) ==
  LET t == TrimLeft(text)
      n == IF t = <<>> THEN 0 ELSE RunLen(t, 1, DigitSet)
  IN  IF text = <<>> \/ n = 0 THEN 1 ELSE DigitsToNat(SubSeq(t, 1, n))

\* input in html_filter_param_a (which = "a") or html_filter_param_b
ParamInput(which, text) ==
  /\ script # "settings_html_import"
  /\ filterParamA' = IF which = "a" THEN text ELSE filterParamA
  /\ filterParamB' = IF which = "b" THEN text ELSE filterParamB
  /\ filterParamA' # filterParamA \/ filterParamB' # filterParamB
  /\ IF activeFieldKey = "" \/ templateJson[activeFieldKey] = <<>>
     THEN UNCHANGED <<templateJson, fieldBadge, mapperFiltered>>
     ELSE LET old == OrSpec(FilterAt(templateJson, activeFieldKey), TypeOnly("none"))
              filterSpec ==
                CASE old.type \in {"after_token", "before_token"} ->
                       [old EXCEPT !.token = filterParamA']
                  [] old.type = "between_tokens" ->
                       [old EXCEPT !.left = filterParamA', !.right = filterParamB']
                  [] old.type = "regex" ->
                       [old EXCEPT !.pattern = filterParamA',
                                   !.group = ParamGroup(filterParamB')]
                  [] OTHER -> old
              fields == [templateJson EXCEPT ![activeFieldKey] =
                           <<[@[1] EXCEPT !.filter = filterSpec]>>]
              sample == fieldSamples[activeFieldKey]
          IN  /\ templateJson' = fields
              /\ mapperFiltered' = updateFilterPreview(fields, fieldSamples, activeFieldKey)
              /\ fieldBadge' = [fieldBadge EXCEPT ![activeFieldKey] =
                                  OrText(applyFilter(script, sample, filterSpec),
                                         OrText(sample, MappedText))]
  /\ hev' = HEv("param", activeFieldKey)
  /\ UNCHANGED <<script, frameVars, activeFieldKey, activeTemplateName, fieldSamples,
                 filterSelect, netVars, shown>>
  /\ UNCHANGED blockVars

\* deriveTokenFilter(raw, selection): <<>> for null, else <<filter>>
deriveTokenFilter(raw, selection) ==
  LET value == CollapseSpace(Trim(raw))
      selected == CollapseSpace(Trim(selection))
      idx == IF selected = <<>> THEN 0
             ELSE IndexOfFrom(ToLowerCase(value), ToLowerCase(selected), 1)
      leftContext == Trim(SubSeq(value, 1, idx - 1))
      rightContext == Trim(SubSeq(value, idx + Len(selected), Len(value)))
      leftToken == Trim(SliceLast(leftContext, TokenLength))
      rightToken == Trim(SliceTo(rightContext, TokenLength))
  IN  IF value = <<>> \/ selected = <<>> \/ idx = 0 THEN <<>>
      ELSE IF leftToken # <<>> /\ rightToken # <<>>
      THEN <<[TypeOnly("between_tokens") EXCEPT !.left = leftToken, !.right = rightToken]>>
      ELSE IF leftToken # <<>>
      THEN <<[TypeOnly("after_token") EXCEPT !.token = leftToken]>>
      ELSE IF rightToken # <<>>
      THEN <<[TypeOnly("before_token") EXCEPT !.token = rightToken]>>
      ELSE <<[TypeOnly("regex") EXCEPT !.pattern = selected]>>

\* handleHighlightFilter after the characters from..to of the i-th element
\* were selected while the highlight filter is chosen
HandleHighlightFilter(i, from, to) ==
  /\ script # "settings_html_import"
  /\ filterSelect = "highlight_text"
  /\ i \in 1..Len(previewDoc)
  /\ 1 <= from /\ from <= to /\ to <= Len(previewDoc[i].text)
  /\ LET selectedText == Trim(SubSeq(previewDoc[i].text, from, to))
         sample == IF previewDoc[i].text # <<>> THEN ElementText(previewDoc[i])
                   ELSE fieldSamples[activeFieldKey]
         derived == deriveTokenFilter(sample, selectedText)
         filter == IF script = "part_003"
                   THEN [TypeOnly("highlight_text") EXCEPT
                           !.selected_text = selectedText, !.derived = derived]
                   ELSE derived[1]
         fields == [templateJson EXCEPT ![activeFieldKey] =
                      IF @ = <<>> THEN <<FieldEntry(<<>>, filter)>>
                      ELSE <<[@[1] EXCEPT !.filter = filter]>>]
     IN  IF activeFieldKey = ""
         THEN /\ hev' = HEv("highlight", "")
              /\ UNCHANGED <<templateJson, fieldBadge, mapperFiltered, filterSelect,
                             filterParamA, filterParamB>>
         ELSE IF selectedText = <<>>
         THEN /\ hev' = HEv("Highlight text in the preview first.", activeFieldKey)
              /\ UNCHANGED <<templateJson, fieldBadge, mapperFiltered, filterSelect,
                             filterParamA, filterParamB>>
         ELSE IF derived = <<>>
         THEN /\ hev' = HEv("Could not build a filter from the highlight.", activeFieldKey)
              /\ UNCHANGED <<templateJson, fieldBadge, mapperFiltered, filterSelect,
                             filterParamA, filterParamB>>
         ELSE /\ templateJson' = fields
              /\ setFilterSelect(filter)
              /\ mapperFiltered' = updateFilterPreview(fields, fieldSamples, activeFieldKey)
              /\ fieldBadge' = [fieldBadge EXCEPT ![activeFieldKey] =
                                  IF script = "part_003" THEN selectedText
                                  ELSE OrText(applyFilter(script, sample, filter),
                                              OrText(sample, MappedText))]
              /\ hev' = HEv("highlight", activeFieldKey)
  /\ UNCHANGED <<script, frameVars, activeFieldKey, activeTemplateName, fieldSamples,
                 netVars, shown>>
  /\ UNCHANGED blockVars

\* click on html_mapper_save: saveTemplate() posts templateJson
MapperSaveClick ==
  /\ activeTemplateName # ""
  /\ htmlSavesLeft > 0
  /\ htmlSavesLeft' = htmlSavesLeft - 1
  /\ htmlSaves' = Append(htmlSaves, templateJson)
  /\ hev' = HEv("save", "")
  /\ UNCHANGED <<script, frameVars, templateJson, activeFieldKey, activeTemplateName,
                 fieldSamples, fieldBadge, mapperFiltered, filterSelect, filterParamA,
                 filterParamB, htmlServer, htmlLists, htmlLoads, htmlSamples, emailsLeft,
                 shown>>
  /\ UNCHANGED blockVars

\* the answer to the i-th save-template request; saveTemplate goes on
\* with loadTemplates(templateName)
HtmlSaveResponse(i, ok) ==
  /\ i \in 1..Len(htmlSaves)
  /\ htmlSaves' = RemoveAt(htmlSaves, i)
  /\ IF ok
     THEN /\ htmlServer' = [htmlServer EXCEPT !.template_json = htmlSaves[i]]
          /\ htmlLists' = htmlLists + 1
     ELSE UNCHANGED <<htmlServer, htmlLists>>
  /\ hev' = HEv("saved", "")
  /\ UNCHANGED <<script, frameVars, templateJson, activeFieldKey, activeTemplateName,
                 fieldSamples, fieldBadge, mapperFiltered, filterSelect, filterParamA,
                 filterParamB, htmlLoads, htmlSamples, htmlSavesLeft, emailsLeft, shown>>
  /\ UNCHANGED blockVars

\* the answer to a templates request: loadTemplates goes on with
\* loadTemplate of the account's template
HtmlListResponse(ok) ==
  /\ htmlLists > 0
  /\ htmlLists' = htmlLists - 1
  /\ htmlLoads' = IF ok THEN htmlLoads + 1 ELSE htmlLoads
  /\ hev' = HEv("list", "")
  /\ UNCHANGED <<script, frameVars, templateJson, activeFieldKey, activeTemplateName,
                 fieldSamples, fieldBadge, mapperFiltered, filterSelect, filterParamA,
                 filterParamB, htmlServer, htmlSaves, htmlSamples, htmlSavesLeft,
                 emailsLeft, shown>>
  /\ UNCHANGED blockVars

\* setPreview(html): the document the frame will load
PreviewOf(html) == IF html = <<>> THEN PlaceholderDoc ELSE html

\* the answer to a load-template request
HtmlLoadResponse(ok) ==
  /\ htmlLoads > 0
  /\ htmlLoads' = htmlLoads - 1
  /\ IF ~ok
     THEN /\ hev' = HEv("load", "")
          /\ UNCHANGED <<frameVars, templateJson, activeTemplateName, fieldSamples,
                         fieldBadge, mapperFiltered>>
     ELSE LET fields == htmlServer.template_json
          IN  /\ activeTemplateName' = HtmlName
              /\ lastEmailHtml' = htmlServer.html_email_body
              /\ templateJson' = fields
              /\ IF script = "settings_html_import"
                 THEN /\ fieldSamples' = fieldSamples
                      /\ fieldBadge' = [k \in HtmlKeys |->
                                          IF fields[k] # <<>> THEN MappedText
                                          ELSE fieldBadge[k]]
                      /\ hev' = HEv("replay", "")
                 ELSE /\ fieldSamples' = ReplaySamples(fields, previewDoc)
                      /\ fieldBadge' = ReplayBadges(fields, previewDoc)
                      /\ hev' = HEv("replay", "")
              /\ mapperFiltered' =
                   IF script = "part_003" THEN mapperFiltered
                   ELSE updateFilterPreview(fields, fieldSamples', activeFieldKey)
              /\ previewDoc' = previewDoc
              /\ previewPending' = <<PreviewOf(lastEmailHtml')>>
              /\ replayOnLoad' = (script = "part_003" \/ replayOnLoad)
  /\ UNCHANGED <<script, activeFieldKey, filterSelect, filterParamA, filterParamB,
                 htmlServer, htmlSaves, htmlLists, htmlSamples, htmlSavesLeft, emailsLeft,
                 shown>>
  /\ UNCHANGED blockVars

\* the load event of the frame
PreviewLoaded ==
  /\ previewPending # <<>>
  /\ previewDoc' = previewPending[1]
  /\ previewPending' = <<>>
  /\ replayOnLoad' = FALSE
  /\ IF replayOnLoad
     THEN /\ fieldSamples' = ReplaySamples(templateJson, previewDoc')
          /\ fieldBadge' = ReplayBadges(templateJson, previewDoc')
          /\ mapperFiltered' = updateFilterPreview(templateJson, fieldSamples', activeFieldKey)
          /\ hev' = HEv("replay", "")
     ELSE /\ hev' = HEv("loaded", "")
          /\ UNCHANGED <<fieldSamples, fieldBadge, mapperFiltered>>
  /\ UNCHANGED <<script, lastEmailHtml, templateJson, activeFieldKey, activeTemplateName,
                 filterSelect, filterParamA, filterParamB, netVars, shown>>
  /\ UNCHANGED blockVars

\* click on html_subject_refresh
SubjectRefreshClick ==
  /\ activeTemplateName # ""
  /\ htmlSamples < MaxHtmlSamples
  /\ htmlSamples' = htmlSamples + 1
  /\ hev' = HEv("refresh", "")
  /\ UNCHANGED <<script, frameVars, templateJson, activeFieldKey, activeTemplateName,
                 fieldSamples, fieldBadge, mapperFiltered, filterSelect, filterParamA,
                 filterParamB, htmlServer, htmlSaves, htmlLists, htmlLoads, htmlSavesLeft,
                 emailsLeft, shown>>
  /\ UNCHANGED blockVars

\* the answer to a sample request
HtmlSampleResponse(ok) ==
  /\ htmlSamples > 0
  /\ htmlSamples' = htmlSamples - 1
  /\ IF ok
     THEN /\ lastEmailHtml' = htmlServer.html_email_body
          /\ previewPending' = <<PreviewOf(lastEmailHtml')>>
     ELSE UNCHANGED <<lastEmailHtml, previewPending>>
  /\ hev' = HEv("sample", "")
  /\ UNCHANGED <<script, previewDoc, replayOnLoad, templateJson, activeFieldKey,
                 activeTemplateName, fieldSamples, fieldBadge, mapperFiltered, filterSelect,
                 filterParamA, filterParamB, htmlServer, htmlSaves, htmlLists, htmlLoads,
                 htmlSavesLeft, emailsLeft, shown>>
  /\ UNCHANGED blockVars

\* a new email matching the template reaches the server
EmailArrives(doc) ==
  /\ emailsLeft > 0
  /\ doc # htmlServer.html_email_body
  /\ emailsLeft' = emailsLeft - 1
  /\ htmlServer' = [htmlServer EXCEPT !.html_email_body = doc]
  /\ hev' = HEv("email", "")
  /\ UNCHANGED <<script, frameVars, templateJson, activeFieldKey, activeTemplateName,
                 fieldSamples, fieldBadge, mapperFiltered, filterSelect, filterParamA,
                 filterParamB, htmlSaves, htmlLists, htmlLoads, htmlSamples, htmlSavesLeft,
                 shown>>
  /\ UNCHANGED blockVars

vars == <<blockVars, htmlVars>>

\* The page as served: the wizard starts on invoice_number with every other
\* choice locked (the HTML is not part of the sources).
InitialLock == [k \in FieldKeys |-> k # "invoice_number"]

InitBlockMapper(store, budget) ==
  /\ txtTpl = <<>>
  /\ fPage = 1
  /\ fPdf = NoFile
  /\ storedPdfFile = NoFile
  /\ pageData = NoPageData
  /\ overlay = {}
  /\ mappedBoxes = {}
  /\ selectedIds = <<>>
  /\ inpTrigger = <<>>
  /\ direction = "right"
  /\ selFilter = "none"
  /\ liveSpan = <<>>
  /\ customerBy = "name"
  /\ currentFieldIndex = 0
  /\ maxUnlockedIndex = 0
  /\ selField = "invoice_number"
  /\ radioChecked = "invoice_number"
  /\ radioDisabled = InitialLock
  /\ statusDot = [k \in FieldKeys |-> FALSE]
  /\ sideValue = [k \in FieldKeys |-> Dash]
  /\ inpTemplateName = ""
  /\ options = {}
  /\ server = store
  /\ saves = <<>>
  /\ lists = 1
  /\ loads = <<>>
  /\ downloads = <<>>
  /\ blockLoads = <<>>
  /\ previews = <<>>
  /\ newestPending = FALSE
  /\ liveStale = FALSE
  /\ liveNewest = FALSE
  /\ addsLeft = budget
  /\ ev = Other

\* the block mapper as served, beside an HTML-template mapper nobody uses
InitWith(store, budget) ==
  /\ InitBlockMapper(store, budget)
  /\ InitHtmlMapper("part_003", NoFields, <<>>, 0, 0)

\* ------------------------------------------------------ shared fragments
\* getCurrentPdfFile()
CurrentPdfFile == IF fPdf # NoFile THEN fPdf ELSE storedPdfFile

\* history: a handler that changes the active field, the page or the document
\* leaves the context of the preview requests in flight
ContextStep ==
  previews' = IF <<selField', fPage', CurrentPdfFile'>> # <<selField, fPage, CurrentPdfFile>>
              THEN LeaveContext(previews) ELSE previews

\* drawOverlay(): one clickable box per block of pageData (pageViewport is
\* set by the render that precedes every assignment of pageData)
DrawOverlay(pd) == {pd.blocks[i].id : i \in 1..Len(pd.blocks)}

\* the highlights drawOverlay() draws at the end of the running handler
MappedNow == DrawMappedFieldOverlays(ReadTplOf(txtTpl'), pageData', fPage')

\* buildFilterSpec().type for the field key fk and the bm_filter value t
BuildFilterSpec(fk, t) ==
  IF fk # "customer_map" /\ FIXED_FILTER(fk) # "" THEN FIXED_FILTER(fk) ELSE t

\* lockFilterUIFor(fieldKey): the bm_filter value afterwards
LockFilterUIFor(fieldKey, t) ==
  IF FIXED_FILTER(fieldKey) # "" THEN FIXED_FILTER(fieldKey) ELSE t

\* previewValue() with the selection sel, trigger trig and direction dir the
\* calling handler leaves behind
PreviewValue(sel, trig, dir) ==
  /\ liveSpan' = <<>>
  /\ liveStale' = FALSE
  /\ liveNewest' = FALSE
  /\ addsLeft' = addsLeft
  /\ IF CurrentPdfFile = NoFile \/ sel = <<>>
     THEN UNCHANGED <<previews, newestPending>>
     ELSE /\ Len(previews) < MaxPreviews
          /\ previews' = Append(previews,
               [res |-> ServerPreview(CurrentPdfFile, fPage, sel[1], Trim(trig), dir),
                current |-> TRUE])
          /\ newestPending' = TRUE

\* autoPopulateTriggerFromSelection: the trigger input after a click on a box
\* whose label text is text (cut after the first colon, at most 60 characters)
AutoTrigger(text, old) ==
  LET txt == Trim(text)
      idx == IndexOfChar(txt, ":")
      cut == IF idx >= 0 THEN Trim(SubSeq(txt, 1, idx + 1)) ELSE txt
  IN  IF txt = <<>> THEN old
      ELSE IF Len(cut) > 60 THEN SubSeq(cut, 1, 60) ELSE cut

\* SetCurrentFieldCore keeping the trigger text of the field left
SetCurrentFieldKeepsTrigger(fieldKey) ==
  /\ currentFieldIndex' = IF IndexOf(fieldKey) >= 0 THEN IndexOf(fieldKey)
                          ELSE currentFieldIndex
  /\ selField' = fieldKey
  /\ radioChecked' = fieldKey
  /\ selFilter' = LockFilterUIFor(fieldKey, selFilter)
  /\ inpTrigger' = inpTrigger
  /\ selectedIds' = <<>>

\* setCurrentFieldFromKey(fieldKey) up to its drawOverlay()
SetCurrentFieldCore(fieldKey) ==
  /\ currentFieldIndex' = IF IndexOf(fieldKey) >= 0 THEN IndexOf(fieldKey)
                          ELSE currentFieldIndex
  /\ selField' = fieldKey
  /\ radioChecked' = fieldKey
  /\ selFilter' = LockFilterUIFor(fieldKey, selFilter)
  /\ inpTrigger' = <<>>
  /\ selectedIds' = <<>>

\* setCurrentFieldFromKey(fieldKey)
SetCurrentFieldFromKey(fieldKey) ==
  /\ SetCurrentFieldCore(fieldKey)
  /\ overlay' = DrawOverlay(pageData)

\* loadBlocks(): the synchronous part, then render + blocks request in flight
LoadBlocks ==
  /\ liveSpan' = <<>>
  /\ liveStale' = FALSE
  /\ liveNewest' = FALSE
  /\ addsLeft' = addsLeft
  /\ newestPending' = newestPending
  /\ selectedIds' = <<>>
  /\ overlay' = {}
  /\ mappedBoxes' = {}
  /\ inpTrigger' = <<>>
  /\ IF CurrentPdfFile' = NoFile
     THEN blockLoads' = blockLoads
     ELSE /\ Len(blockLoads) < MaxBlockLoads
          /\ blockLoads' = Append(blockLoads, [doc |-> CurrentPdfFile', page |-> fPage'])

\* ----------------------------------------------------- wizard handlers
\* change of a bm_field_choice radio: the browser has checked radio key
RadioChange(key) ==
  /\ UNCHANGED htmlVars
  /\ UNCHANGED <<txtTpl, docVars, direction, liveSpan, customerBy, maxUnlockedIndex,
                 radioDisabled, sideVars, tplNetVars, blockLoads, histVars>>
  /\ IF SelectionBlocked(key, maxUnlockedIndex)
     THEN /\ radioChecked' = SeqKey(currentFieldIndex)
          /\ ev' = Ev("select", key, "Please map the earlier fields first.")
          /\ UNCHANGED <<currentFieldIndex, selField, selFilter, inpTrigger,
                         selectedIds, overlay, mappedBoxes>>
     ELSE /\ SetCurrentFieldFromKey(key)
          /\ mappedBoxes' = MappedNow
          /\ ev' = Ev("select", key, "")
  /\ ContextStep

\* click on the bm-box of block id, with or without the shift key
OverlayClick(id, shift) ==
  /\ UNCHANGED htmlVars
  /\ id \in overlay
  /\ LET sel == IF shift
                THEN IF id \in Range(selectedIds)
                     THEN SelectSeq(selectedIds, LAMBDA x : x # id)
                     ELSE Append(selectedIds, id)
                ELSE <<id>>
         found == {i \in 1..Len(pageData.blocks) : pageData.blocks[i].id = id}
         text == IF found = {} THEN <<>>
                 ELSE pageData.blocks[CHOOSE i \in found : TRUE].text
         trig == AutoTrigger(text, inpTrigger)
     IN  /\ selectedIds' = sel
         /\ overlay' = DrawOverlay(pageData)
         /\ inpTrigger' = trig
         /\ PreviewValue(sel, trig, direction)
  /\ ev' = Other
  /\ UNCHANGED <<txtTpl, docVars, direction, selFilter, customerBy, wizardVars,
                 sideVars, tplNetVars, blockLoads>>
  /\ mappedBoxes' = MappedNow

\* input event on bm_trigger_text
TriggerInput(text) ==
  /\ UNCHANGED htmlVars
  /\ text # inpTrigger
  /\ inpTrigger' = text
  /\ PreviewValue(selectedIds, text, direction)
  /\ ev' = Other
  /\ UNCHANGED <<txtTpl, docVars, overlay, mappedBoxes, selectedIds, direction, selFilter,
                 customerBy, wizardVars, sideVars, tplNetVars, blockLoads>>

\* change of bm_dir_right / bm_dir_below
DirectionChange(dir) ==
  /\ UNCHANGED htmlVars
  /\ dir # direction
  /\ direction' = dir
  /\ PreviewValue(selectedIds, inpTrigger, dir)
  /\ ev' = Other
  /\ UNCHANGED <<txtTpl, docVars, overlay, mappedBoxes, selectedIds, inpTrigger, selFilter,
                 customerBy, wizardVars, sideVars, tplNetVars, blockLoads>>

\* change of bm_filter (the select is disabled while the active field has a
\* fixed filter)
FilterChange(t) ==
  /\ UNCHANGED htmlVars
  /\ FIXED_FILTER(selField) = ""
  /\ t # selFilter
  /\ selFilter' = t
  /\ PreviewValue(selectedIds, inpTrigger, direction)
  /\ ev' = Other
  /\ UNCHANGED <<txtTpl, docVars, overlay, mappedBoxes, selectedIds, inpTrigger, direction,
                 customerBy, wizardVars, sideVars, tplNetVars, blockLoads>>

\* ------------------------------------------------- document handlers
\* the user picks a file in bm_pdf_file (no handler is attached)
ChooseFile(doc) ==
  /\ UNCHANGED htmlVars
  /\ doc # fPdf
  /\ fPdf' = doc
  /\ ev' = Other
  /\ UNCHANGED <<txtTpl, fPage, storedPdfFile, pageData, overlay, mappedBoxes, pendingVars,
                 direction, selFilter, liveSpan, customerBy, wizardVars, sideVars,
                 tplNetVars, blockLoads, histVars>>
  /\ ContextStep

\* click on bm_load_blocks
LoadBlocksClick ==
  /\ UNCHANGED htmlVars
  /\ UNCHANGED docVars
  /\ LoadBlocks
  /\ ev' = Other
  /\ UNCHANGED <<txtTpl, direction, selFilter, customerBy, wizardVars, sideVars,
                 tplNetVars, previews>>

\* change of bm_page
FPageChange(page) ==
  /\ UNCHANGED htmlVars
  /\ page # fPage
  /\ fPage' = page
  /\ UNCHANGED <<fPdf, storedPdfFile, pageData>>
  /\ LoadBlocks
  /\ ev' = Other
  /\ UNCHANGED <<txtTpl, direction, selFilter, customerBy, wizardVars, sideVars,
                 tplNetVars>>
  /\ ContextStep

\* loadBlocks() resumes: the page was rendered and its blocks fetched (ok),
\* or one of the two failed
BlocksResponse(i, ok) ==
  /\ UNCHANGED htmlVars
  /\ i \in 1..Len(blockLoads)
  /\ UNCHANGED <<txtTpl, fPage>>
  /\ LET r == blockLoads[i]
         blocks == DocBlocks(r.doc, r.page)
     IN  /\ ok => blocks # <<>>
         /\ IF ok
            THEN /\ pageData' = [doc |-> r.doc, page |-> r.page, blocks |-> blocks]
                 /\ overlay' = DrawOverlay(pageData')
                 /\ mappedBoxes' = MappedNow
            ELSE UNCHANGED <<pageData, overlay, mappedBoxes>>
  /\ ev' = Other
  /\ blockLoads' = RemoveAt(blockLoads, i)
  /\ UNCHANGED <<fPdf, storedPdfFile, pendingVars, direction, selFilter,
                 liveSpan, customerBy, wizardVars, sideVars, tplNetVars, previews, histVars>>

\* previewValue() resumes with the answer to request i (ok), or with an error
PreviewResponse(i, ok) ==
  /\ UNCHANGED htmlVars
  /\ i \in 1..Len(previews)
  /\ LET r == previews[i]
         isNewest == newestPending /\ i = Len(previews)
     IN  /\ ok => r.res # <<>>
         /\ IF ok
            THEN /\ liveSpan' = r.res[1]
                 /\ liveStale' = ~r.current
                 /\ liveNewest' = isNewest
                 /\ ev' = EvPreview("", isNewest, r.current)
            ELSE /\ UNCHANGED <<liveSpan, liveStale, liveNewest>>
                 /\ ev' = EvPreview("failed", isNewest, r.current)
         /\ newestPending' = IF isNewest THEN FALSE ELSE newestPending
         /\ addsLeft' = addsLeft
  /\ previews' = RemoveAt(previews, i)
  /\ UNCHANGED <<txtTpl, docVars, overlay, mappedBoxes, pendingVars, direction, selFilter,
                 customerBy, wizardVars, sideVars, tplNetVars, blockLoads>>

\* ---------------------------------------------------------- addToTemplate
\* Committed pushing the new entry without removing the entry the key has
CommittedAppends(tpl, fieldKey, page, by, trigger, dir, anchor, filter) ==
  LET t1 == [tpl EXCEPT !.template_id = IF @ = "" THEN "user-invoice-template" ELSE @,
                        !.page = page]
  IN  IF fieldKey = "customer_map"
      THEN [t1 EXCEPT !.customer_map =
              <<[by |-> IF by = "email" THEN "email" ELSE "name",
                 trigger_text |-> trigger, direction |-> dir, anchor |-> anchor,
                 filter |-> filter]>>]
      ELSE [t1 EXCEPT !.fshape = "array",
                      !.fields =
                        Append(IF tpl.fshape = "array" THEN tpl.fields ELSE <<>>,
                               Entry(fieldKey, trigger, dir, anchor, filter))]

\* Committed writing an invoice field into a template without customer_map
CommittedDropsCustomer(tpl, fieldKey, page, by, trigger, dir, anchor, filter) ==
  LET t1 == [tpl EXCEPT !.template_id = IF @ = "" THEN "user-invoice-template" ELSE @,
                        !.page = page]
  IN  IF fieldKey = "customer_map"
      THEN [t1 EXCEPT !.customer_map =
              <<[by |-> IF by = "email" THEN "email" ELSE "name",
                 trigger_text |-> trigger, direction |-> dir, anchor |-> anchor,
                 filter |-> filter]>>]
      ELSE [t1 EXCEPT !.fshape = "array",
                      !.customer_map = <<>>,
                      !.fields =
                        Append(SelectSeq2(IF tpl.fshape = "array" THEN tpl.fields
                                          ELSE <<>>, fieldKey),
                               Entry(fieldKey, trigger, dir, anchor, filter))]

\* the template addToTemplate writes for the active field fieldKey
Committed(tpl, fieldKey, page, by, trigger, dir, anchor, filter) ==
  LET t1 == [tpl EXCEPT !.template_id = IF @ = "" THEN "user-invoice-template" ELSE @,
                        !.page = page]
  IN  IF fieldKey = "customer_map"
      THEN [t1 EXCEPT !.customer_map =
              <<[by |-> IF by = "email" THEN "email" ELSE "name",
                 trigger_text |-> trigger, direction |-> dir, anchor |-> anchor,
                 filter |-> filter]>>]
      ELSE [t1 EXCEPT !.fshape = "array",
                      !.fields =
                        Append(SelectSeq2(IF tpl.fshape = "array" THEN tpl.fields
                                          ELSE <<>>, fieldKey),
                               Entry(fieldKey, trigger, dir, anchor, filter))]

\* setSideValue: the value part shown for a text
SideText(text) == IF Trim(text) = <<>> THEN Dash ELSE Trim(text)

\* AddFails sending the template on the page to the server
AddFailsSaves(msg) ==
  /\ ev' = Ev("add", "", msg)
  /\ saves' = Append(saves, [name |-> inpTemplateName, tpl |-> ReadTplOf(txtTpl)])
  /\ UNCHANGED <<txtTpl, docVars, overlay, mappedBoxes, pendingVars, direction, selFilter, liveSpan,
                 customerBy, wizardVars, sideVars, server, lists, loads, downloads,
                 inpTemplateName, options, blockLoads, previews, histVars>>

AddFails(msg) ==
  /\ ev' = Ev("add", "", msg)
  /\ UNCHANGED <<txtTpl, docVars, overlay, mappedBoxes, pendingVars, direction, selFilter, liveSpan,
                 customerBy, wizardVars, sideVars, tplNetVars, blockLoads, previews, histVars>>

\* advanceAfterFieldSave(savedFieldKey, tpl), then drawOverlay()
AdvanceAfterFieldSave(savedFieldKey, tpl) ==
  LET savedIndex == IndexOf(savedFieldKey)
      nextKey == FirstUnmapped(tpl)
  IN  IF savedIndex = -1
      THEN /\ UNCHANGED <<wizardVars, selFilter, pendingVars>>
           /\ overlay' = DrawOverlay(pageData)
      ELSE /\ maxUnlockedIndex' = AdvanceMax(savedIndex, maxUnlockedIndex)
           /\ radioDisabled' = IF savedIndex + 1 > maxUnlockedIndex
                               THEN LockState(tpl, maxUnlockedIndex')
                               ELSE radioDisabled
           /\ IF nextKey # ""
              THEN SetCurrentFieldFromKey(nextKey)
              ELSE /\ UNCHANGED <<currentFieldIndex, selField, radioChecked, selFilter,
                                  pendingVars>>
                   /\ overlay' = DrawOverlay(pageData)

\* saveTemplateToServer(tpl): the request is sent
SendSave(tpl) ==
  /\ Len(saves) < MaxSaves
  /\ saves' = Append(saves, [name |-> inpTemplateName, tpl |-> tpl])

\* AutoSave saving after every addToTemplate that ran to its end
AutoSaveAlways(before, after) == SendSave(after)

\* the bm_add_to_template click handler after addToTemplate(): the template
\* is saved when its JSON text differs from the one read before
AutoSave(before, after) ==
  IF after # before THEN SendSave(after) ELSE saves' = saves

\* click on bm_add_to_template: addToTemplate(), then the auto-save when the
\* template text changed
AddToTemplateClick ==
  /\ UNCHANGED htmlVars
  /\ LET before == ReadTplOf(txtTpl)
         found == IF selectedIds = <<>> THEN {}
                  ELSE {i \in 1..Len(pageData.blocks) :
                          pageData.blocks[i].id = selectedIds[1]}
         trigger_text == Trim(inpTrigger)
     IN  IF selectedIds = <<>>
         THEN AddFails("Step 1: click the label text on the PDF first.")
         ELSE IF found = {}
         THEN AddFails("Internal: anchor block not found.")
         ELSE IF trigger_text = <<>>
         THEN AddFails("Step 2: type or confirm a trigger phrase.")
         ELSE
           LET anchorBlock == pageData.blocks[CHOOSE i \in found : \A j \in found : i <= j]
               anchor == Anchor(fPage, CentreX(anchorBlock), CentreY(anchorBlock))
               fieldKey == selField
               tpl == Committed(before, fieldKey, fPage, customerBy, trigger_text,
                                direction, anchor, BuildFilterSpec(fieldKey, selFilter))
           IN  /\ addsLeft > 0
               /\ addsLeft' = addsLeft - 1
               /\ txtTpl' = WriteTplOf(tpl)
               /\ sideValue' = [sideValue EXCEPT ![fieldKey] = SideText(liveSpan)]
               /\ statusDot' = [statusDot EXCEPT ![fieldKey] = TRUE]
               /\ AdvanceAfterFieldSave(fieldKey, tpl)
               /\ AutoSave(before, tpl)
               /\ ev' = Ev("add", "", "")
               /\ UNCHANGED <<docVars, direction, liveSpan, customerBy, server, lists, loads,
                              downloads, inpTemplateName, options, blockLoads, newestPending,
                              liveStale, liveNewest>>
               /\ mappedBoxes' = MappedNow
               /\ ContextStep

\* ------------------------------------------------ template persistence
\* initialiseTemplateSelector() up to its first await: the options are
\* reset to the placeholder and the list of templates is requested
InitialiseTemplateSelector ==
  /\ lists < MaxLists
  /\ lists' = lists + 1
  /\ options' = {}

\* loadTemplateFromServer(name): the request is sent
SendLoad(name) ==
  /\ Len(loads) < MaxLoads
  /\ loads' = Append(loads, [name |-> name])

\* change of bm_template_selector
SelectTemplate(name) ==
  /\ UNCHANGED htmlVars
  /\ name \in options
  /\ inpTemplateName' = name
  /\ SendLoad(name)
  /\ ev' = Other
  /\ UNCHANGED <<txtTpl, docVars, overlay, mappedBoxes, pendingVars, direction, selFilter, liveSpan,
                 customerBy, wizardVars, sideVars, options, server, saves, lists,
                 downloads, blockLoads, histVars>>
  /\ previews' = IF name # inpTemplateName THEN LeaveContext(previews) ELSE previews

\* the server handles save request i, storing the template (ok) or failing,
\* and saveTemplateToServer resumes with its answer
SaveResponse(i, ok) ==
  /\ UNCHANGED htmlVars
  /\ i \in 1..Len(saves)
  /\ saves' = RemoveAt(saves, i)
  /\ server' = IF ok THEN [server EXCEPT ![ServerName(saves[i].name)] = <<saves[i].tpl>>]
               ELSE server
  /\ IF ok THEN InitialiseTemplateSelector ELSE UNCHANGED <<lists, options>>
  /\ ev' = Other
  /\ UNCHANGED <<txtTpl, docVars, overlay, mappedBoxes, pendingVars, direction, selFilter, liveSpan,
                 customerBy, wizardVars, sideVars, loads, downloads,
                 inpTemplateName, blockLoads, previews, histVars>>

StoredNames == {n \in Names : server[n] # <<>>}

\* initialiseTemplateSelector resumes with the list of templates (ok; first
\* is the name the server lists first) or with an error
ListResponse(ok, first) ==
  /\ UNCHANGED htmlVars
  /\ lists > 0
  /\ lists' = lists - 1
  /\ IF StoredNames = {} THEN first = "" ELSE first \in StoredNames
  /\ LET initialName == IF inpTemplateName # "" THEN inpTemplateName ELSE first
     IN  IF ok
         THEN /\ options' = StoredNames
              /\ inpTemplateName' = initialName
              /\ SendLoad(initialName)
         ELSE /\ UNCHANGED <<options, inpTemplateName>>
              /\ SendLoad("")
  /\ ev' = Other
  /\ UNCHANGED <<txtTpl, docVars, overlay, mappedBoxes, pendingVars, direction, selFilter, liveSpan,
                 customerBy, wizardVars, sideVars, server, saves, downloads, blockLoads,
                 previews, histVars>>

\* the answers the server can give to a load-template request for name
LoadAnswers(name, pdfs, samples) ==
  LET cands == IF name # "" THEN {n \in StoredNames : n = name} ELSE StoredNames
  IN  {[ok |-> FALSE, tpl |-> EmptyObj, template_name |-> "", pdf_exists |-> FALSE,
        samples |-> FALSE]}
      \cup (IF cands = {}
            THEN {[ok |-> TRUE, tpl |-> EmptyObj, template_name |-> "",
                   pdf_exists |-> FALSE, samples |-> FALSE]}
            ELSE {[ok |-> TRUE, tpl |-> server[n][1], template_name |-> n,
                   pdf_exists |-> p, samples |-> sm] :
                     n \in cands, p \in pdfs, sm \in samples})

\* the status a loaded mapping m gets: trigger_text, direction and anchor truthy
MappingOk(m) == m.trigger_text # <<>> /\ m.direction # "" /\ m.anchor # <<>>

\* the side text of a loaded mapping that has no extracted sample
\* (">" stands for the right arrow, "v" for the down arrow)
DirTagText(label, dir) ==
  SideText(label \o <<" ", IF dir = "below" THEN "v" ELSE ">">>)

\* loadTemplateFromServer: status dot of an invoice field of the loaded tpl
LoadedDot(tpl, key) ==
  IF key = "customer_map"
  THEN tpl.customer_map # <<>> /\ MappingOk(tpl.customer_map[1])
  ELSE tpl.fshape = "array" /\ isFieldMapped(tpl, key)

FirstEntry(tpl, key) ==
  tpl.fields[CHOOSE i \in 1..Len(tpl.fields) :
               /\ tpl.fields[i].field_key = key
               /\ \A j \in 1..(i - 1) : tpl.fields[j].field_key # key]

\* loadTemplateFromServer: side value of a field of the loaded tpl
LoadedSide(tpl, key, samples) ==
  IF ~LoadedDot(tpl, key) THEN Dash
  ELSE IF samples THEN <<"S">>
  ELSE LET m == IF key = "customer_map" THEN tpl.customer_map[1]
                ELSE FirstEntry(tpl, key)
       IN  DirTagText(m.trigger_text, m.direction)

\* initialiseWizardFromTemplate(tpl) for a tpl on which isFieldMapped works
\* (the overlay it draws is settled by what loadTemplateFromServer does next)
InitialiseWizardFromTemplate(tpl) ==
  /\ maxUnlockedIndex' = InitMax(tpl)
  /\ radioDisabled' = LockState(tpl, maxUnlockedIndex')
  /\ SetCurrentFieldCore(IF FirstUnmapped(tpl) # "" THEN FirstUnmapped(tpl)
                         ELSE SeqKey(0))

\* the server answers load request i with r and loadTemplateFromServer resumes
LoadResponse(i, r) ==
  /\ UNCHANGED htmlVars
  /\ i \in 1..Len(loads)
  /\ LET tpl == r.tpl
         rest == RemoveAt(loads, i)
     IN  IF ~r.ok
         THEN /\ loads' = rest
              /\ ev' = Ev("loadResponse", "", "failed")
              /\ UNCHANGED <<txtTpl, docVars, overlay, mappedBoxes, pendingVars, selFilter, customerBy,
                             wizardVars, sideVars, downloads, inpTemplateName, options,
                             previews>>
         ELSE /\ txtTpl' = WriteTplOf(tpl)
              /\ fPage' = IF tpl.page # 0 THEN tpl.page ELSE fPage
              /\ statusDot' = [k \in FieldKeys |-> LoadedDot(tpl, k)]
              /\ sideValue' = [k \in FieldKeys |-> LoadedSide(tpl, k, r.samples)]
              /\ customerBy' = IF tpl.customer_map = <<>> THEN customerBy
                               ELSE IF tpl.customer_map[1].by = "email" THEN "email"
                               ELSE "name"
              /\ loads' = rest
              /\ UNCHANGED <<fPdf, storedPdfFile, pageData>>
              /\ IF IsFieldMappedThrows(tpl)
                 THEN \* the TypeError leaves initialiseWizardFromTemplate after
                      \* its first assignment and ends the load in its catch
                      /\ maxUnlockedIndex' = 0
                      /\ ev' = Ev("loadResponse", "", "threw")
                      /\ UNCHANGED <<currentFieldIndex, selField, radioChecked,
                                     radioDisabled, selFilter, pendingVars, overlay, mappedBoxes,
                                     downloads, inpTemplateName, options>>
                      /\ ContextStep
                 ELSE /\ InitialiseWizardFromTemplate(tpl)
                      /\ inpTemplateName' = IF r.template_name # "" THEN r.template_name
                                            ELSE inpTemplateName
                      /\ options' = IF r.template_name # ""
                                    THEN options \cup {r.template_name} ELSE options
                      /\ IF r.pdf_exists
                         THEN /\ overlay' = DrawOverlay(pageData)
                              /\ mappedBoxes' = MappedNow
                              /\ IF inpTemplateName' = "" THEN downloads' = downloads
                                 ELSE /\ Len(downloads) < MaxDownloads
                                      /\ downloads' = Append(downloads,
                                           [page |-> IF tpl.page > 0 THEN tpl.page ELSE 1])
                         ELSE /\ overlay' = {}
                              /\ mappedBoxes' = {}
                              /\ downloads' = downloads
                      /\ ev' = Ev("loadResponse", "", "")
                      /\ ContextStep
  /\ UNCHANGED <<direction, liveSpan, server, saves, lists, blockLoads, histVars>>

\* loadStoredPdfIfAvailable resumes with the stored PDF doc (ok) or an error
DownloadResponse(i, ok, doc) ==
  /\ UNCHANGED htmlVars
  /\ i \in 1..Len(downloads)
  /\ downloads' = RemoveAt(downloads, i)
  /\ IF ok
     THEN /\ storedPdfFile' = doc
          /\ fPage' = downloads[i].page
          /\ UNCHANGED <<fPdf, pageData>>
          /\ LoadBlocks
     ELSE UNCHANGED <<docVars, overlay, mappedBoxes, pendingVars, liveSpan, histVars, blockLoads>>
  /\ ev' = Other
  /\ UNCHANGED <<txtTpl, direction, selFilter, customerBy, wizardVars, sideVars, server,
                 saves, lists, loads, inpTemplateName, options>>
  /\ ContextStep

\* ------------------------------------------------------ saved templates
LabelText == <<"N", ":">>
LabelAnchor == Anchor(1, 160, 20)

\* a mapping of key as the wizard writes it on page 1 of document D0
Mapped(key, dir) ==
  Entry(key, LabelText, dir, LabelAnchor, BuildFilterSpec(key, "none"))

Saved(fields, cm) ==
  [template_id |-> "user-invoice-template", page |-> 1, fshape |-> "array",
   fields |-> fields, customer_map |-> cm]

TplPartial == Saved(<<Mapped("invoice_number", "right")>>, <<>>)

\* invoice_number present but without trigger text, the two fields after it mapped
TplGap ==
  Saved(<<Entry("invoice_number", <<>>, "right", LabelAnchor, "none"),
          Mapped("issue_date", "below"), Mapped("amount_due", "right")>>, <<>>)

TplDueOnly == Saved(<<Mapped("due_date", "below")>>, <<>>)

TplFull ==
  Saved(<<Mapped("invoice_number", "below"), Mapped("issue_date", "right"),
          Mapped("amount_due", "below")>>,
        <<[by |-> "email", trigger_text |-> LabelText, direction |-> "below",
           anchor |-> LabelAnchor, filter |-> "none"]>>)

\* a template whose fields value is an object, not an array
TplBad ==
  [template_id |-> "user-invoice-template", page |-> 1, fshape |-> "bad",
   fields |-> <<>>, customer_map |-> <<>>]

Store(a, b) == [n \in Names |-> IF n = "A" THEN a ELSE b]

\* stores holding one template, and stores holding two
InitialStores ==
  {Store(<<>>, <<>>), Store(<<TplPartial>>, <<>>), Store(<<TplGap>>, <<>>)}
TwoStores == {Store(<<TplFull>>, <<TplBad>>), Store(<<TplDueOnly>>, <<TplPartial>>)}

\* ------------------------------------------------------- specification
Init ==
  \/ \E store \in InitialStores : InitWith(store, MaxAdds)
  \/ \E store \in TwoStores : InitWith(store, MaxAddsTwo)

\* nothing is in flight
Idle ==
  previews = <<>> /\ blockLoads = <<>> /\ saves = <<>> /\ lists = 0 /\ loads = <<>>

\* The wizard on one document: a user who waits for the page to settle picks
\* the file, loads its blocks, maps fields and picks templates; the server
\* stores and returns templates.
Next ==
  \/ Idle /\ \E key \in FieldKeys : RadioChange(key)
  \/ Idle /\ \E id \in 1..3, shift \in BOOLEAN : OverlayClick(id, shift)
  \/ Idle /\ \E text \in {<<" ">>} : TriggerInput(text)
  \/ Idle /\ \E doc \in {"D0"} : ChooseFile(doc)
  \/ Idle /\ LoadBlocksClick
  \/ \E i \in 1..Len(blockLoads), ok \in BOOLEAN : BlocksResponse(i, ok)
  \/ \E i \in 1..Len(previews), ok \in BOOLEAN : PreviewResponse(i, ok)
  \/ Idle /\ AddToTemplateClick
  \/ Idle /\ \E name \in Names : SelectTemplate(name)
  \/ \E i \in 1..Len(saves) : SaveResponse(i, TRUE)
  \/ \E first \in Names \cup {""} : ListResponse(TRUE, first)
  \/ \E i \in 1..Len(loads) :
       \E r \in {a \in LoadAnswers(loads[i].name, {FALSE}, {FALSE}) : a.ok} :
         LoadResponse(i, r)

Spec == Init /\ [][Next]_vars

\* The live preview on a two-page document: the user does not wait for the
\* preview answers, which arrive in any order; for everything else the user
\* waits and switches between the two unlocked fields.  The server holds one
\* template.
InitPreview == InitWith(Store(<<TplPartial>>, <<>>), MaxAddsPreview)

Settled == blockLoads = <<>> /\ saves = <<>> /\ lists = 0 /\ loads = <<>>

NextPreview ==
  \/ Settled /\ \E key \in {"invoice_number", "issue_date"} : RadioChange(key)
  \/ Settled /\ \E id \in 1..3 : OverlayClick(id, FALSE)
  \/ Settled /\ \E dir \in {"right", "below"} : DirectionChange(dir)
  \/ Settled /\ \E doc \in {"D1"} : ChooseFile(doc)
  \/ Settled /\ LoadBlocksClick
  \/ Settled /\ \E page \in Pages : FPageChange(page)
  \/ \E i \in 1..Len(blockLoads) : BlocksResponse(i, TRUE)
  \/ \E i \in 1..Len(previews), ok \in BOOLEAN : PreviewResponse(i, ok)
  \/ Settled /\ AddToTemplateClick
  \/ \E i \in 1..Len(saves) : SaveResponse(i, TRUE)
  \/ \E first \in Names : ListResponse(TRUE, first)
  \/ \E i \in 1..Len(loads) :
       \E r \in {a \in LoadAnswers(loads[i].name, {FALSE}, {FALSE}) : a.ok} :
         LoadResponse(i, r)

SpecPreview == InitPreview /\ [][NextPreview]_vars

\* The anchor resolver on the one-page documents: the server holds one
\* template whose invoice_number is anchored at one of GeoPoints, in one of
\* the two directions; the user picks a document, loads its blocks and
\* clicks labels, and every redraw replays the template on the blocks.
GeoPoints == {<<80, 60>>, <<125, 65>>, <<150, 80>>, <<90, 100>>}

TplAt(p, dir) ==
  Saved(<<Entry("invoice_number", LabelText, dir, Anchor(1, p[1], p[2]), "none")>>, <<>>)

InitGeometry ==
  \E p \in GeoPoints, dir \in {"right", "below"} :
    InitWith(Store(<<TplAt(p, dir)>>, <<>>), 0)

NextGeometry ==
  \/ Idle /\ fPdf = NoFile /\ \E doc \in GeoDocs : ChooseFile(doc)
  \/ Idle /\ LoadBlocksClick
  \/ \E i \in 1..Len(blockLoads), ok \in BOOLEAN : BlocksResponse(i, ok)
  \/ Idle /\ \E id \in 1..3 : OverlayClick(id, FALSE)
  \/ Idle /\ \E dir \in {"right", "below"} : DirectionChange(dir)
  \/ \E i \in 1..Len(previews) : PreviewResponse(i, TRUE)
  \/ \E first \in Names : ListResponse(TRUE, first)
  \/ \E i \in 1..Len(loads) :
       \E r \in {a \in LoadAnswers(loads[i].name, {FALSE}, {FALSE}) : a.ok} :
         LoadResponse(i, r)

SpecGeometry == InitGeometry /\ [][NextGeometry]_vars

\* every sequence field and customer_map mapped, on page 1
TplAll ==
  Saved(<<Mapped("invoice_number", "right"), Mapped("issue_date", "right"),
          Mapped("amount_due", "below"), Mapped("due_date", "below")>>,
        <<[by |-> "name", trigger_text |-> LabelText, direction |-> "right",
           anchor |-> LabelAnchor, filter |-> "none"]>>)

\* a template authored on page 2: its invoice_number entry has a direction
\* that is neither right nor below and an anchor without a page, its
\* issue_date entry is anchored on page 1
TplOdd ==
  [template_id |-> "user-invoice-template", page |-> 2, fshape |-> "array",
   fields |-> <<Entry("invoice_number", LabelText, "up", Anchor(0, 100, 100), "none"),
                Mapped("issue_date", "below")>>,
   customer_map |-> <<>>]

ReplayStores == {Store(<<TplAll>>, <<>>), Store(<<TplOdd>>, <<>>)}

\* Replay of the template on a two-page document: a user who waits for the
\* page to settle picks the file, loads and changes pages (a page load can
\* fail), selects fields and maps them; the server holds one template.
InitReplay == \E store \in ReplayStores : InitWith(store, MaxAddsReplay)

NextReplay ==
  \/ Idle /\ \E key \in FieldKeys : RadioChange(key)
  \/ Idle /\ \E id \in 1..3 : OverlayClick(id, FALSE)
  \/ Idle /\ \E doc \in {"D1"} : ChooseFile(doc)
  \/ Idle /\ LoadBlocksClick
  \/ Idle /\ \E page \in Pages : FPageChange(page)
  \/ \E i \in 1..Len(blockLoads), ok \in BOOLEAN : BlocksResponse(i, ok)
  \/ \E i \in 1..Len(previews) : PreviewResponse(i, TRUE)
  \/ Idle /\ AddToTemplateClick
  \/ \E i \in 1..Len(saves) : SaveResponse(i, TRUE)
  \/ \E first \in Names : ListResponse(TRUE, first)
  \/ \E i \in 1..Len(loads) :
       \E r \in {a \in LoadAnswers(loads[i].name, {FALSE}, {FALSE}) : a.ok} :
         LoadResponse(i, r)

SpecReplay == InitReplay /\ [][NextReplay]_vars

\* The wizard with a user who does not wait: Add clicks and clicks on the
\* boxes come while saves, template lists and template loads are in flight,
\* and a field switch or a click on a box comes while the blocks of a page
\* are loading; only the answer to a preview request is waited for.  The
\* server holds one template, in which invoice_number is mapped, and no
\* other template is ever selected.
InitRace == InitWith(Store(<<TplPartial>>, <<>>), MaxAddsRace)

Calm == previews = <<>>
NetIdle == saves = <<>> /\ lists = 0 /\ loads = <<>>
PageIdle == blockLoads = <<>>

NextRace ==
  \/ Calm /\ NetIdle /\ \E key \in {"issue_date"} : RadioChange(key)
  \/ Calm /\ \E id \in 1..3 : OverlayClick(id, FALSE)
  \/ Idle /\ \E text \in {<<" ">>} : TriggerInput(text)
  \/ Idle /\ fPdf = NoFile /\ \E doc \in {"D1"} : ChooseFile(doc)
  \/ Idle /\ LoadBlocksClick
  \/ Idle /\ \E page \in Pages : FPageChange(page)
  \/ \E i \in 1..Len(blockLoads) : BlocksResponse(i, TRUE)
  \/ \E i \in 1..Len(previews), ok \in BOOLEAN : PreviewResponse(i, ok)
  \/ Calm /\ PageIdle /\ AddToTemplateClick
  \/ \E i \in 1..Len(saves) : SaveResponse(i, TRUE)
  \/ \E first \in Names : ListResponse(TRUE, first)
  \/ \E i \in 1..Len(loads) :
       \E r \in {a \in LoadAnswers(loads[i].name, {FALSE}, {FALSE}) : a.ok} :
         LoadResponse(i, r)

SpecRace == InitRace /\ [][NextRace]_vars

\* ------------------------------------ HTML-template mapper: the filters
\* One stored entry for amount_due with any of the filter specs, one element
\* with any of the texts; the user selects the field, clicks the element and
\* saves, and the saved template is loaded and replayed.
MaxFilterSaves == 1
LongText == [i \in 1..(SampleLength + 1) |-> IF i <= SampleLength THEN "x" ELSE "7"]
FilterTexts ==
  {<<"1", ",", "2", "3", "4", ".", "5", "0">>, <<"1", "2", "3", "4", ".", "5", "0">>, <<"1", ",", "0", "0", "0">>, <<"t", "o", "t", "a", "l", " ", "1", "2", ".", "5", " ", "d", "u", "e">>, <<"i", "n", "v", "-", "1", "0", "0", "7">>,
   <<"d", "u", "e", " ", "3", "/", "4", "/", "2", "0", "2", "4", " ", "x">>, <<"o", "n", " ", "3", " ", "j", "a", "n", " ", "2", "0", "2", "4">>, <<"a", " ", "(", "b", ")", " ", "c">>, <<"n", "e", "t">>, <<>>,
   <<" ", "7", " ", " ", "x">>, <<"a", ":", "b", ";", "c">>, <<"x", "a", "1">>, LongText}
Regex(pattern, group) == [TypeOnly("regex") EXCEPT !.pattern = pattern, !.group = group]
Token(type, token) == [TypeOnly(type) EXCEPT !.token = token]
Between(left, right) == [TypeOnly("between_tokens") EXCEPT !.left = left, !.right = right]
FilterSpecs ==
  {TypeOnly(t) : t \in {"none", "digits_only", "amount", "date", "strip_parentheses",
                        "highlight_text", "after_token", "before_token",
                        "between_tokens", "regex"}}
  \cup {Token("after_token", <<":">>), Token("before_token", <<":">>),
        Token("after_token", <<"z", "z">>), Between(<<":">>, <<";">>), Between(<<":">>, <<>>),
        Regex(<<"a", "(", "1", ")">>, -1), Regex(<<"a", "(", "1", ")">>, 0), Regex(<<"a", "(", "1", ")">>, 2), Regex(<<"a">>, 1),
        Regex(<<"(", "a">>, 1), Regex(<<"z", "z">>, 1),
        [TypeOnly("highlight_text") EXCEPT !.selected_text = <<"s", "e", "l">>]}
FilterKey == "amount_due"
StoredFilters ==
  {NoFields} \cup
  {[NoFields EXCEPT ![FilterKey] = <<FieldEntry(<<[tag |-> "div", index |-> 0]>>, f)>>] :
     f \in FilterSpecs}

InitFilter ==
  /\ InitBlockMapper(Store(<<TplPartial>>, <<>>), 0)
  /\ \E s \in Scripts, stored \in StoredFilters, text \in FilterTexts :
       InitHtmlMapper(s, stored, <<Element("div", text)>>, MaxFilterSaves, 0)

\* no request in flight and no document loading
HtmlIdle == htmlSaves = <<>> /\ htmlLists = 0 /\ htmlLoads = 0 /\ htmlSamples = 0
            /\ previewPending = <<>>

NextFilter ==
  \/ HtmlListResponse(TRUE)
  \/ HtmlLoadResponse(TRUE)
  \/ PreviewLoaded
  \/ HtmlIdle /\ HtmlRadioChange(FilterKey)
  \/ HtmlIdle /\ HandlePreviewClick(1)
  \/ HtmlIdle /\ MapperSaveClick
  \/ \E i \in 1..Len(htmlSaves) : HtmlSaveResponse(i, TRUE)

SpecFilter == InitFilter /\ [][NextFilter]_vars

\* ------------------------------------- HTML-template mapper: the wizard
\* A fresh template and two sample emails of two elements each; the user
\* selects fields, clicks elements, chooses filters, highlights text, saves
\* and refreshes, while a second email may arrive.
MaxHtmlSaves == 1
MaxEmails == 1
MaxSelect == 1
DocOne == <<Element("div", <<"7", " ", "x">>), Element("div", <<"a", "b">>)>>
DocTwo == <<Element("div", <<"8", " ", "x">>), Element("div", <<"c", "d">>)>>
HtmlDocs == {DocOne, DocTwo}
HtmlMapKeys == {"invoice_number", "customer_name"}
HtmlFilterOptions == {"highlight_text"}
ParamTexts == {<<"x">>}

InitHtml ==
  /\ InitBlockMapper(Store(<<TplPartial>>, <<>>), 0)
  /\ \E s \in Scripts : InitHtmlMapper(s, NoFields, DocOne, MaxHtmlSaves, MaxEmails)

\* the field selected has an entry with a path
ActiveMapped ==
  /\ activeFieldKey # ""
  /\ templateJson[activeFieldKey] # <<>>
  /\ templateJson[activeFieldKey][1].path # <<>>

\* the i-th element of the frame is the one the field selected is mapped to
MappedElement(i) ==
  ActiveMapped /\ templateJson[activeFieldKey][1].path = PathOf(previewDoc, i)

\* the filter types whose parameters are typed into the two inputs
ParamTypes == {"after_token", "before_token", "between_tokens", "regex"}

\* nothing is stored yet for the template
Unsaved == HtmlIdle /\ htmlServer.template_json = NoFields

\* an email arrived that the frame does not show yet
NewEmail == htmlServer.html_email_body # lastEmailHtml

\* The user selects another field, clicks an element, and refines the filter
\* of a field once it is mapped, highlighting text of the element mapped.
NextHtml ==
  \/ Unsaved /\ \E key \in HtmlMapKeys \ {activeFieldKey} : HtmlRadioChange(key)
  \/ Unsaved /\ \E i \in 1..Len(previewDoc) : HandlePreviewClick(i)
  \/ Unsaved /\ ActiveMapped /\ \E selected \in HtmlFilterOptions : HtmlFilterChange(selected)
  \/ Unsaved /\ ActiveMapped /\ filterSelect \in ParamTypes
       /\ \E text \in ParamTexts : ParamInput("a", text)
  \/ Unsaved /\ \E i \in 1..Len(previewDoc), from \in 1..MaxSelect, to \in 1..MaxSelect :
                   MappedElement(i) /\ HandleHighlightFilter(i, from, to)
  \/ HtmlIdle /\ MapperSaveClick
  \/ HtmlIdle /\ NewEmail /\ SubjectRefreshClick
  \/ \E i \in 1..Len(htmlSaves), ok \in BOOLEAN : HtmlSaveResponse(i, ok)
  \/ \E ok \in BOOLEAN : HtmlListResponse(ok)
  \/ \E ok \in BOOLEAN : HtmlLoadResponse(ok)
  \/ \E ok \in BOOLEAN : HtmlSampleResponse(ok)
  \/ PreviewLoaded
  \/ \E doc \in HtmlDocs : EmailArrives(doc)

SpecHtml == InitHtml /\ [][NextHtml]_vars

\* ================================================================ claims
\* C1: a radio selection of a FIELD_SEQUENCE key whose index is greater than
\* maxUnlockedIndex is rejected: an error is raised, the checked radio is the
\* active field again, and the active field key, currentFieldIndex,
\* maxUnlockedIndex, the pending selection, the trigger text and the template
\* are unchanged.
C1_LockedSelectionRejected ==
  [][(ev'.op = "select" /\ IndexOf(ev'.key) > maxUnlockedIndex) =>
       /\ ev'.alert # ""
       /\ radioChecked' = selField
       /\ UNCHANGED <<selField, currentFieldIndex, maxUnlockedIndex, selectedIds,
                      inpTrigger, txtTpl>>]_vars

\* the template on the page
Tpl == ReadTplOf(txtTpl)

\* C2 as stated: over every step of a session maxUnlockedIndex never
\* decreases, and it is i > 0 only when the field at sequence index i - 1 is
\* mapped in the current template.
C2_MaxNeverDecreases ==
  [][/\ maxUnlockedIndex' >= maxUnlockedIndex
     /\ maxUnlockedIndex' > 0 =>
          isFieldMapped(Tpl', SeqKey(maxUnlockedIndex' - 1))]_vars

\* C2 amended: addToTemplate and field switches never lower
\* maxUnlockedIndex; a template load sets it to min(k + 1, 3) for the highest
\* sequence index k mapped in the loaded template, and to 0 when no sequence
\* field is mapped or the load throws; whenever it is i > 0 some sequence
\* field of index i - 1 or higher is mapped in the current template.
C2_MaxRaisedOrRecomputed ==
  [][LET tpl == Tpl'
         mapped == {i \in 0..LastIndex : isFieldMapped(tpl, SeqKey(i))}
     IN  /\ ev'.op # "loadResponse" => maxUnlockedIndex' >= maxUnlockedIndex
         /\ (ev'.op = "loadResponse" /\ ev'.alert = "") =>
               /\ mapped = {} => maxUnlockedIndex' = 0
               /\ \A k \in mapped :
                    (\A j \in mapped : j <= k) =>
                      maxUnlockedIndex' = Min2(k + 1, LastIndex)
         /\ (ev'.op = "loadResponse" /\ ev'.alert = "threw") => maxUnlockedIndex' = 0
         /\ maxUnlockedIndex' > 0 =>
               \E j \in (maxUnlockedIndex' - 1)..LastIndex : j \in mapped]_vars

\* a load has left every sequence field selectable although amount_due,
\* the field before the last, is not mapped
C2_Witness ==
  /\ ev.op = "loadResponse" /\ ev.alert = ""
  /\ maxUnlockedIndex = LastIndex
  /\ ~isFieldMapped(Tpl, "amount_due")

\* C3: in every reachable state the customer_map choice is locked whenever
\* one of invoice_number, issue_date, amount_due is not mapped in the current
\* template.
C3_CustomerMapLocked ==
  (\E key \in REQUIRED : ~isFieldMapped(Tpl, key)) => radioDisabled["customer_map"]

\* C4: the addToTemplate step that makes invoice_number, issue_date and
\* amount_due all mapped leaves customer_map selectable at the end of that
\* same step.
C4_CustomerMapUnlockedAtOnce ==
  [][(ev'.op = "add" /\ ev'.alert = "" /\ ~fieldsComplete(Tpl) /\ fieldsComplete(Tpl')) =>
       ~radioDisabled'["customer_map"]]_vars

\* C5: a successful addToTemplate for the sequence field whose index equals
\* maxUnlockedIndex makes maxUnlockedIndex min(maxUnlockedIndex + 1, 3); one
\* for a sequence field below it, or for customer_map, leaves it unchanged.
C5_BoundaryAdvance ==
  [][(ev'.op = "add" /\ ev'.alert = "") =>
       /\ IndexOf(selField) = maxUnlockedIndex =>
            maxUnlockedIndex' = IF maxUnlockedIndex + 1 < 3 THEN maxUnlockedIndex + 1 ELSE 3
       /\ IndexOf(selField) < maxUnlockedIndex =>
            maxUnlockedIndex' = maxUnlockedIndex]_vars

\* issue_date was just added at the boundary 1 (its entry is the last one
\* written), and the boundary is 2
C5_Witness ==
  /\ ev.op = "add" /\ ev.alert = ""
  /\ Tpl.fields # <<>>
  /\ Tpl.fields[Len(Tpl.fields)].field_key = "issue_date"
  /\ ~isFieldMapped(Tpl, "amount_due") /\ ~isFieldMapped(Tpl, "due_date")
  /\ maxUnlockedIndex = 2

\* C6: after a successful addToTemplate for a sequence field, while some
\* sequence field is unmapped, the active field is the first unmapped field
\* in sequence order.
C6_AdvanceToFirstUnmapped ==
  [][(ev'.op = "add" /\ ev'.alert = "" /\ IndexOf(selField) >= 0) =>
       \A i \in 0..LastIndex :
         (/\ ~isFieldMapped(Tpl', SeqKey(i))
          /\ \A j \in 0..(i - 1) : isFieldMapped(Tpl', SeqKey(j))) =>
           selField' = SeqKey(i)]_vars

\* invoice_number was just re-mapped (its entry is the last one written) with
\* issue_date mapped and two fields unmapped: amount_due is active
C6_Witness ==
  /\ ev.op = "add" /\ ev.alert = ""
  /\ Len(Tpl.fields) = 2
  /\ Tpl.fields[1].field_key = "issue_date"
  /\ Tpl.fields[2].field_key = "invoice_number"
  /\ isFieldMapped(Tpl, "issue_date")
  /\ selField = "amount_due"

\* no sequence field is mapped in the template on the page
NoneMapped == \A i \in 0..LastIndex : ~isFieldMapped(Tpl, SeqKey(i))

\* C7: a wizard initialised from an empty template has invoice_number
\* active, maxUnlockedIndex = 0 and the four other choices locked; while no
\* field is mapped an attempt to select issue_date is rejected and
\* invoice_number stays the active field.
C7_FreshWizard ==
  [][/\ (ev'.op = "loadResponse" /\ ev'.alert = "" /\ Tpl'.fields = <<>>) =>
          /\ selField' = "invoice_number"
          /\ currentFieldIndex' = 0
          /\ maxUnlockedIndex' = 0
          /\ \A k \in FieldKeys : radioDisabled'[k] <=> k # "invoice_number"
     /\ (ev'.op = "select" /\ ev'.key = "issue_date" /\ NoneMapped
           /\ selField = "invoice_number") =>
          /\ ev'.alert # ""
          /\ selField' = "invoice_number"
          /\ currentFieldIndex' = 0]_vars

\* on the loaded empty template an attempt to select issue_date was rejected
C7_Witness ==
  /\ ev.op = "select" /\ ev.key = "issue_date" /\ ev.alert # ""
  /\ txtTpl # <<>> /\ Tpl.fields = <<>> /\ Tpl.customer_map = <<>>
  /\ selField = "invoice_number" /\ radioChecked = "invoice_number"
  /\ maxUnlockedIndex = 0

\* C8: every change of the active field key by an accepted radio selection
\* or by the automatic advance empties the selection and the trigger text; a
\* selection leaves the template unchanged, and the addToTemplate that
\* advances changes nothing in it but the entry of the field it saved.
C8_SwitchResetsPending ==
  [][(selField' # selField /\ ev'.op \in {"select", "add"}) =>
       /\ selectedIds' = <<>>
       /\ inpTrigger' = <<>>
       /\ ev'.op = "select" => txtTpl' = txtTpl
       /\ ev'.op = "add" =>
            /\ Tpl'.customer_map = Tpl.customer_map
            /\ SelectSeq2(Tpl'.fields, selField) =
                 SelectSeq2(IF Tpl.fshape = "array" THEN Tpl.fields ELSE <<>>, selField)]_vars

\* a field was selected after a block had been clicked and its preview shown
C8_Witness ==
  /\ ev.op = "select" /\ ev.alert = "" /\ selField = ev.key
  /\ liveNewest /\ overlay # {}
  /\ selectedIds = <<>> /\ inpTrigger = <<>>

\* C9: of two preview requests issued one after the other, the display ends
\* up holding the value of the one issued last: once it shows that value,
\* the answer to an earlier request does not overwrite it.
C9_LastPreviewWins ==
  [][(ev'.op = "previewResponse" /\ liveNewest) => liveSpan' = liveSpan]_vars

\* C10: the answer to a preview request whose context (active field, page,
\* document, template) was left while it was in flight does not change the
\* live-value display, and no addToTemplate records such a value as its sample.
C10_StalePreviewDiscarded ==
  [][/\ (ev'.op = "previewResponse" /\ ~ev'.current) => liveSpan' = liveSpan
     /\ (ev'.op = "add" /\ ev'.alert = "") =>
          ~(liveStale /\ sideValue'[selField] = SideText(liveSpan)
              /\ liveSpan # <<>>)]_vars

\* C11: every addToTemplate that changes the template sends exactly one save
\* request, carrying the template as it stands after the change; an
\* addToTemplate that fails or leaves the template identical sends none, and
\* no other handler sends a save request.
C11_SaveAfterEveryChange ==
  [][/\ (ev'.op = "add" /\ ev'.alert = "" /\ Tpl' # Tpl) =>
          saves' = Append(saves, [name |-> inpTemplateName, tpl |-> Tpl'])
     /\ (ev'.op = "add" /\ (ev'.alert # "" \/ Tpl' = Tpl)) => saves' = saves
     /\ ev'.op # "add" => Len(saves') <= Len(saves)]_vars

\* a field was just committed again with the mapping it already had, as the
\* last entry of the template: nothing is being saved
C11_Witness ==
  /\ ev.op = "add" /\ ev.alert = ""
  /\ Tpl.fields # <<>>
  /\ saves = <<>>

\* no two entries of a fields list have the same field_key
UniqueKeys(fields) ==
  \A i, j \in 1..Len(fields) : fields[i].field_key = fields[j].field_key => i = j

\* the block addToTemplate anchors on: the first selected id on the page
SelectedBlock ==
  pageData.blocks[CHOOSE i \in 1..Len(pageData.blocks) :
                    pageData.blocks[i].id = selectedIds[1]]

\* the mapping an addToTemplate for an invoice field commits in this state
PendingEntry ==
  Entry(selField, Trim(inpTrigger), direction,
        Anchor(fPage, CentreX(SelectedBlock), CentreY(SelectedBlock)),
        BuildFilterSpec(selField, selFilter))

\* C12: the fields list of the template on the page never holds two entries
\* of one field_key; after a successful addToTemplate for an invoice field
\* the one entry of that key is the mapping just committed (the last of the
\* list) and the entries of the other keys are as they were; committing the
\* mapping the key already has as its last commit leaves the template as it
\* is, and committing the same mapping once more after any commit changes
\* nothing.
C12_OneEntryPerKey ==
  [][/\ UniqueKeys(Tpl'.fields)
     /\ (ev'.op = "add" /\ ev'.alert = "" /\ selField # "customer_map") =>
          /\ Tpl'.fields[Len(Tpl'.fields)] = PendingEntry
          /\ \A i \in 1..(Len(Tpl'.fields) - 1) : Tpl'.fields[i].field_key # selField
          /\ SelectSeq2(Tpl'.fields, selField) =
               SelectSeq2(IF Tpl.fshape = "array" THEN Tpl.fields ELSE <<>>, selField)
          /\ (/\ Tpl.fshape = "array" /\ Tpl.fields # <<>>
              /\ Tpl.fields[Len(Tpl.fields)] = PendingEntry
              /\ Tpl.page = fPage /\ Tpl.template_id # "") => Tpl' = Tpl
          /\ Committed(Tpl', selField, fPage, customerBy, PendingEntry.trigger_text,
                       PendingEntry.direction, PendingEntry.anchor,
                       PendingEntry.filter) = Tpl']_vars

\* invoice_number was just committed again and stands once, after issue_date,
\* in the template being saved
C12_Witness ==
  /\ ev.op = "add" /\ ev.alert = ""
  /\ Len(Tpl.fields) = 2
  /\ Tpl.fields[1].field_key = "issue_date"
  /\ Tpl.fields[2].field_key = "invoice_number"
  /\ Tpl.fields[2].trigger_text = <<"N", ":">>
  /\ saves # <<>>

\* C13: a successful addToTemplate for customer_map makes the customer_map
\* slot exactly the new {by, trigger_text, direction, anchor, filter}, with by
\* name or email, and leaves the fields list as it was; one for an invoice
\* field leaves customer_map as it was.
C13_CustomerMapSlot ==
  [][(ev'.op = "add" /\ ev'.alert = "") =>
       IF selField = "customer_map"
       THEN /\ Tpl'.customer_map =
                 <<[by |-> customerBy, trigger_text |-> PendingEntry.trigger_text,
                    direction |-> direction, anchor |-> PendingEntry.anchor,
                    filter |-> selFilter]>>
            /\ customerBy \in {"name", "email"}
            /\ Tpl'.fields = Tpl.fields
            /\ Tpl'.fshape = Tpl.fshape
       ELSE Tpl'.customer_map = Tpl.customer_map]_vars

\* a customer mapping was just committed into a template that has fields
C13_Witness ==
  /\ ev.op = "add" /\ ev.alert = ""
  /\ selField = "customer_map"
  /\ Tpl.customer_map # <<>>
  /\ Tpl.fields # <<>>
  /\ saves # <<>>

\* C14: isFieldMapped(template, key) is true exactly when the fields list has
\* an entry for key with a non-empty trigger_text, a direction that is right
\* or below, and an anchor; checked on the template on the page for every
\* sequence key.
C14_MappedExactly ==
  \A k \in 0..LastIndex :
    isFieldMapped(Tpl, SeqKey(k)) <=>
      \E i \in 1..Len(Tpl.fields) :
        /\ Tpl.fields[i].field_key = SeqKey(k)
        /\ Tpl.fields[i].trigger_text # <<>>
        /\ Tpl.fields[i].direction \in {"right", "below"}
        /\ Tpl.fields[i].anchor # <<>>

\* C15: the wizard has no stuck state: the radio of every sequence field of
\* index <= maxUnlockedIndex is enabled; a selection of such a field is
\* accepted, makes it the active field and leaves every block of the loaded
\* page clickable; and an addToTemplate with a selected block of the page and
\* a trigger text succeeds, mapping the active field with the mapping
\* entered, whatever is mapped already.
C15_NoStuckState ==
  [][/\ \A k \in 0..LastIndex :
          k <= maxUnlockedIndex' => ~radioDisabled'[SeqKey(k)]
     /\ (ev'.op = "select" /\ IndexOf(ev'.key) >= 0
           /\ IndexOf(ev'.key) <= maxUnlockedIndex) =>
          /\ ev'.alert = ""
          /\ selField' = ev'.key
          /\ overlay' = {pageData.blocks[i].id : i \in 1..Len(pageData.blocks)}
     /\ (/\ ev'.op = "add"
         /\ selectedIds # <<>>
         /\ \E i \in 1..Len(pageData.blocks) : pageData.blocks[i].id = selectedIds[1]
         /\ Trim(inpTrigger) # <<>>) =>
          /\ ev'.alert = ""
          /\ IndexOf(selField) >= 0 =>
               /\ isFieldMapped(Tpl', selField)
               /\ Tpl'.fields[Len(Tpl'.fields)] = PendingEntry]_vars

\* with the four sequence fields and customer_map mapped, invoice_number was
\* selected and mapped again: its entry is the last one written, the
\* template is being saved
C15_Witness ==
  /\ ev.op = "add" /\ ev.alert = ""
  /\ \A k \in 0..LastIndex : isFieldMapped(Tpl, SeqKey(k))
  /\ Tpl.customer_map # <<>>
  /\ Tpl.fields[Len(Tpl.fields)].field_key = "invoice_number"
  /\ saves # <<>>

\* the blocks of the loaded page
PageBlocks == pageData.blocks

\* C16: for every label block of a loaded page findValueBlock with direction
\* right returns null exactly when no block has its line_y within 2.5 of the
\* label's and its x0 at or right of the label's x1 minus 0.5; otherwise it
\* returns one of these blocks, of the smallest x0 among them, and so never a
\* block of another line.
C16_RightResolver ==
  \A l \in 1..Len(PageBlocks) :
    LET label == PageBlocks[l]
        r == FindValueBlock(PageBlocks, label, "right")
        Q == {i \in 1..Len(PageBlocks) :
                /\ Abs(PageBlocks[i].line_y - label.line_y) <= 10
                /\ PageBlocks[i].bbox.x0 >= label.bbox.x1 - 2}
    IN  /\ r = <<>> <=> Q = {}
        /\ Q # {} => \E i \in Q :
                        /\ r[1] = PageBlocks[i]
                        /\ \A j \in Q : PageBlocks[i].bbox.x0 <= PageBlocks[j].bbox.x0

\* the template anchored on the label, direction right, is replayed on the
\* document with candidate 3 (another line, nearer) before candidate 1: the
\* value highlight is on candidate 1
C16_Witness ==
  /\ pageData.doc = "G31"
  /\ Tpl = TplAt(<<80, 60>>, "right")
  /\ mappedBoxes = {[key |-> "invoice_number", role |-> "label", id |-> 1],
                    [key |-> "invoice_number", role |-> "value", id |-> 3]}

\* C17: for every label block of a loaded page findValueBlock with direction
\* below returns null exactly when no block has its y0 above the label's y1
\* plus 1.0; otherwise it returns one of these blocks, at the least vertical
\* distance from the label's bottom edge and, among those at that distance,
\* with the horizontal centre closest to the label's.
C17_BelowResolver ==
  \A l \in 1..Len(PageBlocks) :
    LET label == PageBlocks[l]
        r == FindValueBlock(PageBlocks, label, "below")
        Q == {i \in 1..Len(PageBlocks) : PageBlocks[i].bbox.y0 > label.bbox.y1 + 4}
        labelCx == (label.bbox.x0 + label.bbox.x1) \div 2
        Dy(i) == PageBlocks[i].bbox.y0 - label.bbox.y1
        Dx(i) == Abs((PageBlocks[i].bbox.x0 + PageBlocks[i].bbox.x1) \div 2 - labelCx)
    IN  /\ r = <<>> <=> Q = {}
        /\ Q # {} => \E i \in Q :
                        /\ r[1] = PageBlocks[i]
                        /\ \A j \in Q : Dy(i) < Dy(j) \/ (Dy(i) = Dy(j) /\ Dx(i) <= Dx(j))

\* the template anchored on the label, direction below, is replayed on the
\* document with candidates 6 and 7, at one distance below: the value
\* highlight is on candidate 7, listed last and nearer to the label's centre
C17_Witness ==
  /\ pageData.doc = "G67"
  /\ Tpl = TplAt(<<80, 60>>, "below")
  /\ mappedBoxes = {[key |-> "invoice_number", role |-> "label", id |-> 1],
                    [key |-> "invoice_number", role |-> "value", id |-> 3]}

\* C18: findNearestBlockToPoint returns null for an empty block list and
\* otherwise a block of the list whose bounding-box centre is at the least
\* Euclidean distance from the point.
C18_NearestBlock ==
  \A p \in GeoPoints \cup {<<CentreX(b), CentreY(b)>> : b \in Range(PageBlocks)} :
    LET pt == [x |-> p[1], y |-> p[2]]
        r == FindNearestBlockToPoint(PageBlocks, pt)
    IN  /\ PageBlocks = <<>> => r = <<>>
        /\ PageBlocks # <<>> =>
             \E i \in 1..Len(PageBlocks) :
               /\ r = <<PageBlocks[i]>>
               /\ \A j \in 1..Len(PageBlocks) :
                    (CentreX(PageBlocks[i]) - pt.x) * (CentreX(PageBlocks[i]) - pt.x)
                      + (CentreY(PageBlocks[i]) - pt.y) * (CentreY(PageBlocks[i]) - pt.y)
                    <= (CentreX(PageBlocks[j]) - pt.x) * (CentreX(PageBlocks[j]) - pt.x)
                      + (CentreY(PageBlocks[j]) - pt.y) * (CentreY(PageBlocks[j]) - pt.y)

\* the template anchored at a point as far from the label as from candidate
\* 1 is replayed on the document with candidates 1 and 4: the label
\* highlight is on candidate 4, the nearest
C18_Witness ==
  /\ pageData.doc = "G14"
  /\ Tpl = TplAt(<<125, 65>>, "right")
  /\ [key |-> "invoice_number", role |-> "label", id |-> 3] \in mappedBoxes

\* C19: a replay of the template on the page bm_page shows resolves label
\* and value blocks only among the blocks of that page, and none for a field
\* whose anchor page (anchor.page, else the template's page, else 1) is
\* another page: no highlight of that field is drawn.
C19_OtherPageSkipped ==
  [][LET OtherPage(f) ==
           /\ f.anchor # <<>>
           /\ (IF f.anchor[1].page > 0 THEN f.anchor[1].page
               ELSE IF Tpl'.page > 0 THEN Tpl'.page ELSE 1) # fPage'
         Skips(boxes) ==
           /\ \A i \in 1..Len(Tpl'.fields) :
                OtherPage(Tpl'.fields[i]) =>
                  \A box \in boxes : box.key # Tpl'.fields[i].field_key
           /\ \A box \in boxes :
                \E j \in 1..Len(pageData'.blocks) :
                  /\ pageData'.blocks[j].id = box.id
                  /\ pageData'.blocks[j].page = fPage'
     IN  /\ Skips(DrawMappedFieldOverlays(Tpl', pageData', fPage'))
         /\ mappedBoxes' # mappedBoxes => Skips(mappedBoxes')]_vars

\* the template authored on page 2 is replayed on page 2 of the document:
\* invoice_number, whose anchor has no page, is highlighted on its nearest
\* block, and issue_date, anchored on page 1, is not
C19_Witness ==
  /\ Tpl = TplOdd
  /\ fPage = 2 /\ pageData.page = 2
  /\ mappedBoxes = {[key |-> "invoice_number", role |-> "label", id |-> 3]}

\* C20: after a successful addToTemplate for a sequence field on a clicked
\* block whose centre no other block of the page shares, the stored anchor
\* resolves by findNearestBlockToPoint on the blocks of the page to the
\* clicked block, and the replay of the template on these blocks highlights
\* the clicked block as the label of the field and, with direction right, the
\* nearest block of its line to its right as the value.
C20_AnchorReplays ==
  [][(/\ ev'.op = "add" /\ ev'.alert = ""
      /\ IndexOf(selField) >= 0
      /\ \A i \in 1..Len(PageBlocks) :
           (CentreX(PageBlocks[i]) = CentreX(SelectedBlock)
              /\ CentreY(PageBlocks[i]) = CentreY(SelectedBlock)) =>
             PageBlocks[i] = SelectedBlock) =>
       LET entry == Tpl'.fields[Len(Tpl'.fields)]
           Q == {i \in 1..Len(PageBlocks) :
                   /\ Abs(PageBlocks[i].line_y - SelectedBlock.line_y) <= 10
                   /\ PageBlocks[i].bbox.x0 >= SelectedBlock.bbox.x1 - 2
                   /\ PageBlocks[i] # SelectedBlock}
       IN  /\ FindNearestBlockToPoint(PageBlocks, entry.anchor[1]) = <<SelectedBlock>>
           /\ [key |-> selField, role |-> "label", id |-> SelectedBlock.id]
                \in mappedBoxes'
           /\ (direction = "right" /\ Q # {}) =>
                \E i \in Q :
                  /\ \A j \in Q : PageBlocks[i].bbox.x0 <= PageBlocks[j].bbox.x0
                  /\ [key |-> selField, role |-> "value", id |-> PageBlocks[i].id]
                       \in mappedBoxes']_vars

\* C26: loading a saved template that has no fields key, no customer_map or
\* a fields value that is no array never fails and is treated as an empty
\* template: no field is shown as mapped, maxUnlockedIndex = 0,
\* invoice_number is the active field and customer_map is locked and shown
\* as unmapped.
C26_MalformedLoadsAsEmpty ==
  [][(ev'.op = "loadResponse" /\ ev'.alert # "failed") =>
       /\ Tpl'.fshape # "array" =>
            /\ ev'.alert = ""
            /\ maxUnlockedIndex' = 0
            /\ currentFieldIndex' = 0
            /\ selField' = "invoice_number"
            /\ radioChecked' = "invoice_number"
            /\ radioDisabled' = InitialLock
            /\ \A k \in FieldKeys \ {"customer_map"} :
                 ~statusDot'[k] /\ sideValue'[k] = Dash
       /\ Tpl'.customer_map = <<>> =>
            ~statusDot'["customer_map"] /\ sideValue'["customer_map"] = Dash]_vars

\* C29: whenever the active field is one of the four sequence fields,
\* currentFieldIndex <= maxUnlockedIndex: no automatic advance after a save
\* and no wizard initialisation from a loaded template makes a locked field
\* the active field.
C29_ActiveFieldUnlocked ==
  IndexOf(selField) >= 0 =>
    currentFieldIndex = IndexOf(selField) /\ currentFieldIndex <= maxUnlockedIndex

\* C30: an addToTemplate attempted with no selected block, with a selected
\* id that is not among the blocks of the loaded page, or with an empty
\* trigger text raises its alert and changes nothing: the template, the
\* active field, maxUnlockedIndex, the status dots, the side values and the
\* radio locks are as before and no save request is sent; so the entry a
\* successful addToTemplate writes has a trigger text, a direction and an
\* anchor, and a sequence field it wrote is mapped.
C30_FailedAddChangesNothing ==
  [][ev'.op = "add" =>
       LET noBlock == \A i \in 1..Len(pageData.blocks) :
                        pageData.blocks[i].id # selectedIds[1]
           rejected == \/ selectedIds = <<>>
                       \/ noBlock
                       \/ Trim(inpTrigger) = <<>>
       IN  /\ rejected =>
                /\ ev'.alert # ""
                /\ UNCHANGED <<txtTpl, wizardVars, sideVars, pendingVars, server,
                               saves, lists, loads, overlay, mappedBoxes>>
           /\ ~rejected =>
                /\ ev'.alert = ""
                /\ IF selField = "customer_map"
                   THEN MappingOk(Tpl'.customer_map[1])
                   ELSE /\ MappingOk(Tpl'.fields[Len(Tpl'.fields)])
                        /\ Tpl'.fields[Len(Tpl'.fields)].field_key = selField
                        /\ IndexOf(selField) >= 0 => isFieldMapped(Tpl', selField)]_vars

\* block 2 of page 1 was clicked while the blocks of page 2 were loading;
\* the Add click on page 2, which has no block 2, was rejected with the
\* internal alert and no save was sent
C30_Witness ==
  /\ ev.op = "add"
  /\ ev.alert = "Internal: anchor block not found."
  /\ selectedIds = <<2>>
  /\ pageData.page = 2
  /\ saves = <<>>

\* the template the server holds under the one name in use
SavedTpl == ReadTplOf(server[DefaultName])

\* C28: under every interleaving of Add clicks with the save responses and
\* the template reloads they trigger, while no other template is selected, a
\* field committed by a successful addToTemplate (issue_date, amount_due and
\* due_date can be mapped in no other way here) stays mapped in the template
\* on the page and, once saved, in the template the server holds, and
\* maxUnlockedIndex does not drop.
C28_CommittedFieldStays ==
  [][/\ \A k \in {"issue_date", "amount_due", "due_date"} :
          /\ isFieldMapped(Tpl, k) => isFieldMapped(Tpl', k)
          /\ isFieldMapped(SavedTpl, k) => isFieldMapped(SavedTpl', k)
     /\ maxUnlockedIndex' >= maxUnlockedIndex]_vars

\* the filter and the trimmed sample of the active field
ActiveFilter == FilterAt(templateJson, activeFieldKey)
ActiveValue == Trim(fieldSamples[activeFieldKey])
\* the handler that ran last left the filtered sample of the active field
\* in html_mapper_filtered
PreviewFresh == hev.op \in {"radio", "click"} /\ hev.key = activeFieldKey /\ activeFieldKey # ""

\* the fall-back cases of the token and regex filters: an empty token, an
\* empty left or right, an empty or uncompilable pattern, no match, a match
\* without the group asked for
EmptyParameter(f) ==
  \/ f.type \in {"after_token", "before_token"} /\ f.token = <<>>
  \/ f.type = "between_tokens" /\ (f.left = <<>> \/ f.right = <<>>)
  \/ f.type = "regex" /\ f.pattern = <<>>
NoMatch(f, v) ==
  /\ f.type = "regex" /\ f.pattern # <<>>
  /\ (RegExpThrows(f.pattern) \/ RegExpExec(f.pattern, v) = <<>>)
GroupMissing(f, v) ==
  /\ f.type = "regex" /\ f.pattern # <<>>
  /\ ~RegExpThrows(f.pattern)
  /\ RegExpExec(f.pattern, v) # <<>>
  /\ (IF f.group >= 0 THEN f.group ELSE 1) + 1 > Len(RegExpExec(f.pattern, v)[1])

\* C21: applyFilter never raises and, for after_token or before_token with
\* an empty token, between_tokens with an empty left or right, regex with an
\* empty or uncompilable pattern, a regex that does not match and a regex
\* match without the requested group, gives the trimmed raw value: whenever
\* the filtered sample of the active field was just shown and its filter is
\* one of these cases, html_mapper_filtered holds the trimmed sample.
C21_FallsBackToRaw ==
  (/\ PreviewFresh
   /\ \/ EmptyParameter(ActiveFilter)
      \/ NoMatch(ActiveFilter, ActiveValue)
      \/ GroupMissing(ActiveFilter, ActiveValue))
  => mapperFiltered = OrText(ActiveValue, Dash)

\* applyFilter of the active field's sample under its filter
ActiveOutput == applyFilter(script, fieldSamples[activeFieldKey], ActiveFilter)

\* C22: for the filter types digits_only, amount, date and strip_parentheses
\* applying the filter to its own output gives the same output: the value
\* shown in html_mapper_filtered for such a filter is a fixed point of the
\* filter.
C22_FilterIdempotent ==
  (/\ PreviewFresh
   /\ ActiveFilter.type \in {"digits_only", "amount", "date", "strip_parentheses"})
  => /\ mapperFiltered = OrText(ActiveOutput, Dash)
     /\ applyFilter(script, ActiveOutput, ActiveFilter) = ActiveOutput

\* the first number of value as the amount filter is described: at the first
\* digit, a thousands-grouped number (one to three digits and one or more
\* groups of a comma and three digits) or else the whole run of digits, with
\* the decimals that follow; <<>> when value has no digit
FirstNumber(value) ==
  LET starts == {i \in 1..Len(value) : value[i] \in DigitSet}
  IN  IF starts = {} THEN <<>>
      ELSE
        LET i == CHOOSE a \in starts : \A b \in starts : a <= b
            run == RunLen(value, i, DigitSet)
            IsGroup(q) == /\ q + 3 <= Len(value)
                          /\ value[q] = ","
                          /\ \A k \in (q + 1)..(q + 3) : value[k] \in DigitSet
            g == IF run > 3 THEN 0
                 ELSE CHOOSE n \in 0..Len(value) :
                        /\ \A m \in 0..(n - 1) : IsGroup(i + run + 4 * m)
                        /\ ~IsGroup(i + run + 4 * n)
            q == i + run + 4 * g
            frac == IF q + 1 <= Len(value) /\ value[q] = "."
                    THEN RunLen(value, q + 1, DigitSet) ELSE 0
        IN  <<SubSeq(value, i, IF frac > 0 THEN q + frac ELSE q - 1)>>
AmountOf(value) ==
  IF FirstNumber(value) = <<>> THEN value ELSE NumberToFixed(FirstNumber(value)[1])

\* C23: for a filter of type amount, the amount_due default, the filtered
\* value is the first thousands-grouped or plain decimal number of the raw
\* value, separators removed and formatted to two decimals, and the trimmed
\* raw value when it holds no number, in every version of the script.
C23_AmountFormatted ==
  (PreviewFresh /\ ActiveFilter.type = "amount")
  => mapperFiltered = OrText(AmountOf(ActiveValue), Dash)

\* the keys whose element, element text and filter are those of the last
\* click on them
SameAsClicked ==
  {k \in HtmlKeys :
     /\ shown[k].el # 0
     /\ templateJson[k] # <<>>
     /\ templateJson[k][1].path = PathOf(previewDoc, shown[k].el)
     /\ templateJson[k][1].filter = shown[k].filter
     /\ ElementText(previewDoc[shown[k].el]) = shown[k].text}

\* C25: for the same element text and the same filter the badge written at
\* the click equals the badge written when the saved template is loaded and
\* replayed, and every version of applyFilter gives the same result for the
\* same raw value and filter.
C25_PreviewEqualsReplay ==
  /\ hev.op = "replay" => \A k \in SameAsClicked : fieldBadge[k] = shown[k].value
  /\ PreviewFresh => \A s \in Scripts :
                       applyFilter(s, fieldSamples[activeFieldKey], ActiveFilter) = ActiveOutput

\* the keys whose entry has a path and a highlight_text filter with the
\* text selected when the highlight was made
Highlighted ==
  {k \in HtmlKeys :
     /\ templateJson[k] # <<>>
     /\ templateJson[k][1].path # <<>>
     /\ templateJson[k][1].filter.type = "highlight_text"
     /\ templateJson[k][1].filter.selected_text # <<>>}

\* C24: a field whose filter is highlight_text shows the selected_text kept
\* when the highlight was made, whatever the text of its element: after the
\* highlight, after a click on an element for the field and after every
\* replay of the template on a document the badge of the field is the
\* selected_text of its filter.
C24_HighlightKeepsSelection ==
  /\ hev.op = "replay" =>
       \A k \in Highlighted : fieldBadge[k] = templateJson[k][1].filter.selected_text
  /\ (hev.op \in {"highlight", "click"} /\ hev.key \in Highlighted) =>
       /\ fieldBadge[hev.key] = templateJson[hev.key][1].filter.selected_text
       /\ mapperFiltered = templateJson[hev.key][1].filter.selected_text

\* a replay on the second email wrote the badge of a highlighted field whose
\* element no longer holds the selected text
C24_Witness ==
  /\ hev.op = "replay"
  /\ previewDoc = DocTwo
  /\ \E k \in Highlighted :
       /\ getNodeByPath(previewDoc, templateJson[k][1].path) # <<>>
       /\ IndexOfFrom(getValueFromSpec(previewDoc, templateJson[k][1]),
                      templateJson[k][1].filter.selected_text, 1) = 0
       /\ fieldBadge[k] = templateJson[k][1].filter.selected_text

\* C27: in the HTML-template mapper every field key is selected whenever
\* its radio is chosen, whatever is mapped, and a click maps the active key
\* to the element clicked and leaves the entry of every other key as it was.
C27_FreeOrder ==
  [][/\ hev'.op = "radio" =>
          /\ activeFieldKey' = hev'.key
          /\ \A k \in HtmlKeys \ {hev'.key} : templateJson'[k] = templateJson[k]
     /\ hev'.op = "click" =>
          /\ hev'.key = activeFieldKey
          /\ templateJson'[hev'.key] # <<>>
          /\ \E i \in 1..Len(previewDoc) :
               templateJson'[hev'.key][1].path = PathOf(previewDoc, i)
          /\ \A k \in HtmlKeys \ {hev'.key} : templateJson'[k] = templateJson[k]]_vars

\* customer_name was selected and mapped to the second element while
\* invoice_number has no entry
C27_Witness ==
  /\ hev = HEv("click", "customer_name")
  /\ templateJson["invoice_number"] = <<>>
  /\ templateJson["customer_name"] # <<>>
  /\ Len(previewDoc) >= 2
  /\ templateJson["customer_name"][1].path = PathOf(previewDoc, 2)

====
